---- MODULE Spec2Model ----
(***************************************************************************)
(* Model of the request-template compiler (lib/reqTemplate.js).            *)
(*                                                                         *)
(* Strings are sequences of atoms.  An atom is either one punctuation      *)
(* character or one maximal run of identifier characters (a "word"), so a  *)
(* regular expression of the source is decided atom by atom.               *)
(* Values are records [k, s, f]: k the JavaScript kind, s the atoms of a   *)
(* string, f the entries of an object.                                     *)
(***************************************************************************)
EXTENDS Integers, Sequences, FiniteSets, TLC

VARIABLES
    origSpec,     \* the spec as the caller wrote it, before new Template(spec)
    callerSpec,   \* the caller's spec object, as it is now
    phase,        \* "new" | "compiled" | "failed" (constructor threw) | "tok"
    tpl,          \* the compiled Template: rewritten spec copy, globals, resolver
    res,          \* accumulator captured by Template (reqTemplate.js:421)
    subRes,       \* accumulators captured by each compileTAssembly closure (:262)
    hist,         \* outcomes of the eval calls made so far, oldest first
    tokIn,        \* input of splitAndPrepareTAsseblyTemplate
    tokOut,       \* its outcome
    helperCall,   \* a call of one of globalMethods: its name and arguments
    helperRet,    \* its outcome
    running,      \* invocations of one compiled evaluator that are under way
    newReq,       \* the object the setters built by _setAtPath write to
    lastSet,      \* the last call of a setter: path, value, newReq before it
    mobile,       \* a call of MobileApps._fetchFromMCSAndStore and the storage it sees
    feed          \* a call of Feed.aggregated and the requests it issued

vars == <<origSpec, callerSpec, phase, tpl, res, subRes, hist, tokIn, tokOut,
          helperCall, helperRet, running, newReq, lastSet, mobile, feed>>

(***************************************************************************)
(* Bounds                                                                  *)
(***************************************************************************)
MaxTokLen == 5
MaxEvals == 2

(***************************************************************************)
(* Values                                                                  *)
(***************************************************************************)
Undef == [k |-> "undefined", s |-> <<>>, f |-> <<>>]
Str(s) == [k |-> "string", s |-> s, f |-> <<>>]
Obj(f) == [k |-> "object", s |-> <<>>, f |-> f]
Null == [k |-> "null", s |-> <<>>, f |-> <<>>]
Num(n) == [k |-> "number", s |-> <<n>>, f |-> <<>>]
Bool(b) == [k |-> "boolean", s |-> <<b>>, f |-> <<>>]
EmptyObj == Obj(<<>>)

IsObj(v) == v.k = "object"
IsStr(v) == v.k = "string"

\* JavaScript truthiness of a value
Truthy(v) ==
    CASE v.k = "undefined" -> FALSE
      [] v.k = "null" -> FALSE
      [] v.k = "string" -> v.s # <<>>
      [] v.k = "number" -> v.s # <<"0">>
      [] v.k = "boolean" -> v.s = <<"true">>
      [] OTHER -> TRUE

\* '' + bit
ToStr(v) ==
    CASE v.k = "undefined" -> <<"undefined">>
      [] v.k = "null" -> <<"null">>
      [] v.k \in {"string", "number", "boolean"} -> v.s
      [] v.k = "uri" -> v.s
      [] OTHER -> <<"[object Object]">>

Punct == {"{", "}", "'", "\\", "$", ".", "(", ")", ",", "/", ":", "[", "]"}
IsWord(a) == a \notin Punct

\* index of the first position >= i holding atom a, or 0
RECURSIVE IndexFrom(_, _, _)
IndexFrom(s, a, i) ==
    IF i > Len(s) THEN 0
    ELSE IF s[i] = a THEN i
    ELSE IndexFrom(s, a, i + 1)

\* s.substring(from, to) with JavaScript's 0-based offsets
Substring(s, from, to) == SubSeq(s, from + 1, to)

(***************************************************************************)
(* Expression engine: template-expression-compiler's parse.                *)
(* A node is [t, p, a]: "m" a path relative to the request part, "rm" a    *)
(* path from the context root ($), "call" a call of rc.g.<p>(a), "str" a   *)
(* quoted literal, "obj" an object literal of at most one entry, "err" a   *)
(* syntax error.                                                           *)
(***************************************************************************)
Node(t, p, a) == [t |-> t, p |-> p, a |-> a]
ErrNode == Node("err", <<>>, <<>>)

\* w1.w2.w3 : words separated by single dots
RECURSIVE IsDotted(_)
IsDotted(s) ==
    IF Len(s) = 0 THEN FALSE
    ELSE IF Len(s) = 1 THEN IsWord(s[1])
    ELSE IsWord(s[1]) /\ s[2] = "." /\ IsDotted(SubSeq(s, 3, Len(s)))

DottedPath(s) == [i \in 1..((Len(s) + 1) \div 2) |-> s[2 * i - 1]]

\* the text between quotes: a backslash escapes the atom after it, a bare
\* quote inside the text is a syntax error
Prepend(a, r) == [ok |-> r.ok, s |-> IF r.ok THEN <<a>> \o r.s ELSE <<>>]

RECURSIVE Unescape(_)
Unescape(s) ==
    IF s = <<>> THEN [ok |-> TRUE, s |-> <<>>]
    ELSE IF s[1] = "'" THEN [ok |-> FALSE, s |-> <<>>]
    ELSE IF s[1] = "\\" THEN
        IF Len(s) = 1 THEN [ok |-> FALSE, s |-> <<>>]
        ELSE Prepend(s[2], Unescape(SubSeq(s, 3, Len(s))))
    ELSE Prepend(s[1], Unescape(Tail(s)))

\* position of the comma that separates the two arguments of a call, outside
\* parentheses and quotes; 0 when there is none
RECURSIVE ArgComma(_, _, _, _)
ArgComma(s, i, depth, quoted) ==
    IF i > Len(s) THEN 0
    ELSE IF quoted THEN
        IF s[i] = "\\" THEN ArgComma(s, i + 2, depth, TRUE)
        ELSE ArgComma(s, i + 1, depth, s[i] # "'")
    ELSE IF s[i] = "'" THEN ArgComma(s, i + 1, depth, TRUE)
    ELSE IF s[i] \in {"(", "{"} THEN ArgComma(s, i + 1, depth + 1, FALSE)
    ELSE IF s[i] \in {")", "}"} THEN ArgComma(s, i + 1, depth - 1, FALSE)
    ELSE IF s[i] = "," /\ depth = 0 THEN i
    ELSE ArgComma(s, i + 1, depth, FALSE)

StrNode(u) == IF u.ok THEN Node("str", u.s, <<>>) ELSE ErrNode

ObjNode(key, v) == IF v.t = "err" THEN ErrNode ELSE Node("obj", <<key>>, <<v>>)

\* the callee of a call: $$.name and name both name an entry of rc.g
CalleeName(head) ==
    IF Len(head) >= 4 /\ head[1] = "$" /\ head[2] = "$" /\ head[3] = "."
    THEN SubSeq(head, 4, Len(head))
    ELSE head

CallNode(name, args) ==
    IF IsDotted(name) /\ \A i \in 1..Len(args) : args[i].t # "err"
    THEN Node("call", DottedPath(name), args)
    ELSE ErrNode

RECURSIVE ParseExpr(_)
SplitArgs(inner, comma) ==
    IF comma = 0 THEN <<ParseExpr(inner)>>
    ELSE <<ParseExpr(SubSeq(inner, 1, comma - 1)),
           ParseExpr(SubSeq(inner, comma + 1, Len(inner)))>>

ParseArgs(inner) ==
    IF inner = <<>> THEN <<>> ELSE SplitArgs(inner, ArgComma(inner, 1, 0, FALSE))

ParseExpr(s) ==
    LET n == Len(s) IN
    IF n = 0 THEN ErrNode
    \* 'text'
    ELSE IF s[1] = "'" THEN
        IF n >= 2 /\ s[n] = "'" THEN StrNode(Unescape(SubSeq(s, 2, n - 1)))
        ELSE ErrNode
    \* {}  and  {key:expr}
    ELSE IF s[1] = "{" THEN
        IF n = 2 /\ s[2] = "}" THEN Node("obj", <<>>, <<>>)
        ELSE IF n >= 5 /\ s[n] = "}" /\ IsWord(s[2]) /\ s[3] = ":"
        THEN ObjNode(s[2], ParseExpr(SubSeq(s, 4, n - 1)))
        ELSE ErrNode
    \* $  and  $.a.b
    ELSE IF s = <<"$">> THEN Node("rm", <<>>, <<>>)
    ELSE IF n >= 3 /\ s[1] = "$" /\ s[2] = "." /\ IsDotted(SubSeq(s, 3, n))
        THEN Node("rm", DottedPath(SubSeq(s, 3, n)), <<>>)
    \* $$.a.b(args)  and  name(args)
    ELSE IF s[n] = ")" /\ IndexFrom(s, "(", 1) > 1 THEN
        CallNode(CalleeName(SubSeq(s, 1, IndexFrom(s, "(", 1) - 1)),
                 ParseArgs(SubSeq(s, IndexFrom(s, "(", 1) + 1, n - 1)))
    \* a.b.c
    ELSE IF IsDotted(s) THEN Node("m", DottedPath(s), <<>>)
    ELSE ErrNode

\* the TAssembly expression text parse returns, as atoms: m.a.b, rm.a.b,
\* rc.g.f(x,y), 'text'
RECURSIVE Dots(_)
Dots(p) == IF p = <<>> THEN <<>> ELSE <<".", p[1]>> \o Dots(Tail(p))

RECURSIVE ExprText(_)
ExprText(e) ==
    CASE e.t = "m" -> <<"m">> \o Dots(e.p)
      [] e.t = "rm" -> <<"rm">> \o Dots(e.p)
      [] e.t = "str" -> <<"'">> \o e.p \o <<"'">>
      [] e.t = "obj" ->
            IF e.p = <<>> THEN <<"{", "}">>
            ELSE <<"{", e.p[1], ":">> \o ExprText(e.a[1]) \o <<"}">>
      [] e.t = "call" ->
            <<"rc", ".", "g">> \o Dots(e.p) \o <<"(">>
            \o (IF Len(e.a) = 0 THEN <<>>
                ELSE IF Len(e.a) = 1 THEN ExprText(e.a[1])
                ELSE ExprText(e.a[1]) \o <<",">> \o ExprText(e.a[2]))
            \o <<")">>
      [] OTHER -> <<>>

(***************************************************************************)
(* splitAndPrepareTAsseblyTemplate (reqTemplate.js:72-102)                 *)
(* A segment is [raw, src, e]: a literal run (raw = FALSE, src its atoms)  *)
(* or an expression (raw = TRUE, src its source, e its parsed node).       *)
(***************************************************************************)
LitSeg(s) == [raw |-> FALSE, src |-> s, e |-> ErrNode]
RawSeg(s) == [raw |-> TRUE, src |-> s, e |-> ParseExpr(s)]

\* entering "{" with the pending literal pushed even when it is empty
OpenBraceAlwaysPush(s, index, st) ==
    IF st.nest = 0
    THEN [st EXCEPT !.result = Append(@, LitSeg(Substring(s, st.start, index))),
                    !.start = index + 1,
                    !.nest = @ + 1]
    ELSE [st EXCEPT !.nest = @ + 1]

\* entering "{" at offset index (reqTemplate.js:78-85)
OpenBrace(s, index, st) ==
    IF st.nest = 0
    THEN [st EXCEPT !.result = IF st.start # index
                               THEN Append(@, LitSeg(Substring(s, st.start, index)))
                               ELSE @,
                    !.start = index + 1,
                    !.nest = @ + 1]
    ELSE [st EXCEPT !.nest = @ + 1]

\* pushing the expression that a "}" closes (reqTemplate.js:88-90)
PushExpr(st, seg, index) ==
    IF seg.e.t = "err" THEN [st EXCEPT !.err = "syntax"]
    ELSE [st EXCEPT !.result = Append(@, seg), !.start = index + 1, !.nest = @ - 1]

\* leaving "}" at offset index (reqTemplate.js:86-93)
CloseBrace(s, index, st) ==
    IF st.nest = 1 THEN PushExpr(st, RawSeg(Substring(s, st.start, index)), index)
    ELSE [st EXCEPT !.nest = @ - 1]

ScanStep(s, index, st) ==
    IF s[index + 1] = "{" THEN OpenBrace(s, index, st)
    ELSE IF s[index + 1] = "}" THEN CloseBrace(s, index, st)
    ELSE st

\* the scan of lines 77-94; st = [result, nest, start, err]
RECURSIVE ScanFrom(_, _, _)
ScanFrom(s, index, st) ==
    IF index >= Len(s) \/ st.err # "" THEN st
    ELSE ScanFrom(s, index + 1, ScanStep(s, index, st))

\* the test of line 98
UnbalancedCheck(nest) == nest > 0

\* the end of the scan (reqTemplate.js:95-101)
ScanResult(templateSpec, st) ==
    IF st.err # "" THEN [err |-> st.err, segs |-> <<>>]
    ELSE IF UnbalancedCheck(st.nest) THEN [err |-> "unbalanced", segs |-> <<>>]
    ELSE [err |-> "",
          segs |-> IF st.start # Len(templateSpec)
                   THEN Append(st.result, LitSeg(Substring(templateSpec, st.start, Len(templateSpec))))
                   ELSE st.result]

splitAndPrepareTAsseblyTemplate(templateSpec) ==
    ScanResult(templateSpec,
               ScanFrom(templateSpec, 0, [result |-> <<>>, nest |-> 0, start |-> 0, err |-> ""]))

(***************************************************************************)
(* Regular expressions of the source, decided on atoms                     *)
(***************************************************************************)
\* /\{[^}]+}/.test(s)   (reqTemplate.js:313)
TemplateTest(s) ==
    \E i \in 1..Len(s) : \E j \in (i + 2)..Len(s) :
        /\ s[i] = "{"
        /\ s[j] = "}"
        /\ \A x \in (i + 1)..(j - 1) : s[x] # "}"

\* /(?:[^\w-]|^)m[\.\[]/.test(text)   (reqTemplate.js:320)
UsesM(text) ==
    \E i \in 1..(Len(text) - 1) :
        /\ text[i] = "m"
        /\ text[i + 1] \in {".", "["}
        /\ (i = 1 \/ ~IsWord(text[i - 1]))

\* /^\{[^\{}]+}$/.test(uri)   (reqTemplate.js:228)
WholePlaceholder(s) ==
    /\ Len(s) >= 3
    /\ s[1] = "{"
    /\ s[Len(s)] = "}"
    /\ \A x \in 2..(Len(s) - 1) : s[x] \notin {"{", "}"}

\* /\{\$\$?\..+}/.test(uri)   (reqTemplate.js:228)
RootReference(s) ==
    \E i \in 1..Len(s) :
        /\ s[i] = "{"
        /\ i + 1 <= Len(s) /\ s[i + 1] = "$"
        /\ \E d \in {i + 2, i + 3} :
             /\ d <= Len(s) /\ s[d] = "."
             /\ (d = i + 3 => s[i + 2] = "$")
             /\ \E j \in (d + 2)..Len(s) : s[j] = "}"

\* the offset after an optional http:// or https:// prefix
SchemeLen(s) ==
    IF Len(s) >= 4 /\ s[1] \in {"http", "https"} /\ s[2] = ":" /\ s[3] = "/" /\ s[4] = "/"
    THEN 4 ELSE 0

\* /^((?:https?:\/\/)?\{[^\/]+}\/)/ : the length of the match, 0 for none
\* (reqTemplate.js:238-240). HostMatchAt is the match of \{[^\/]+}\/ at offset p.
HostMatchAt(s, p) ==
    IF p + 1 <= Len(s) /\ s[p + 1] = "{"
    THEN LET slash == IndexFrom(s, "/", p + 2)
         IN IF slash >= p + 4 /\ s[slash - 1] = "}" THEN slash ELSE 0
    ELSE 0

HostTemplateLen(s) ==
    IF SchemeLen(s) > 0 /\ HostMatchAt(s, SchemeLen(s)) > 0
    THEN HostMatchAt(s, SchemeLen(s))
    ELSE HostMatchAt(s, 0)

(***************************************************************************)
(* Objects: Object.keys order is the insertion order; the model iterates   *)
(* the keys of every object in KeyOrder.                                   *)
(***************************************************************************)
KeyOrder == <<"uri", "method", "headers", "query", "body", "0", "1", "x", "y", "n",
              "a_b", "a", "b", "default">>

Keys(f) == SelectSeq(KeyOrder, LAMBDA k : k \in DOMAIN f)

Put(f, k, v) == [y \in (DOMAIN f) \cup {k} |-> IF y = k THEN v ELSE f[y]]

\* path.join('_')
RECURSIVE JoinKey(_)
JoinKey(path) ==
    IF Len(path) = 1 THEN path[1]
    ELSE path[1] \o "_" \o JoinKey(Tail(path))

(***************************************************************************)
(* Resolvers: the functions of the global function table                   *)
(***************************************************************************)
Fn(kind, segs, part, s) == [kind |-> kind, segs |-> segs, part |-> part, s |-> s]

\* globalMethods (reqTemplate.js:9-29)
globalMethods ==
    [default |-> Fn("default", <<>>, "", <<>>), merge |-> Fn("merge", <<>>, "", <<>>)]

\* a compileTAssembly that binds relative names to request.params
compileTAssemblyParams(template, reqPart) == Fn("tassembly", template, "params", <<>>)

\* compileTAssembly(template, reqPart) (reqTemplate.js:261-302)
compileTAssembly(template, reqPart) == Fn("tassembly", template, reqPart, <<>>)

\* the resolver built around a tokenized template, or the tokenizer's error
Resolver(kind, t, path) == [err |-> t.err, fn |-> Fn(kind, t.segs, "params", path)]

\* a createURIResolver that tries the templated host first
createURIResolverHostFirst(uri) ==
    IF HostTemplateLen(uri) > 0
    THEN Resolver("uriHost",
                  splitAndPrepareTAsseblyTemplate(SubSeq(uri, 1, HostTemplateLen(uri))),
                  SubSeq(uri, HostTemplateLen(uri) + 1, Len(uri)))
    ELSE IF WholePlaceholder(uri) \/ RootReference(uri)
    THEN Resolver("uriWhole", splitAndPrepareTAsseblyTemplate(uri), <<>>)
    ELSE [err |-> "", fn |-> Fn("uriPlain", <<>>, "params", uri)]

\* createURIResolver(spec) (reqTemplate.js:227-259)
createURIResolver(uri) ==
    IF WholePlaceholder(uri) \/ RootReference(uri)
    THEN Resolver("uriWhole", splitAndPrepareTAsseblyTemplate(uri), <<>>)
    ELSE IF HostTemplateLen(uri) > 0
    THEN Resolver("uriHost",
                  splitAndPrepareTAsseblyTemplate(SubSeq(uri, 1, HostTemplateLen(uri))),
                  SubSeq(uri, HostTemplateLen(uri) + 1, Len(uri)))
    ELSE [err |-> "", fn |-> Fn("uriPlain", <<>>, "params", uri)]

CallText(key) == <<"$", "$", ".", key, "(", "$", ")">>

\* a test that takes only leaves with several parts for complex
IsInterpolated(segs) == Len(segs) > 1

\* is the tokenized leaf compiled to a function of its own? (reqTemplate.js:316-321)
IsComplex(segs) ==
    \/ Len(segs) > 1
    \/ \E i \in 1..Len(segs) : segs[i].raw /\ UsesM(ExprText(segs[i].e))

\* a templated leaf, tokenized to t (reqTemplate.js:315-331)
ReplaceTemplated(subSpec, path, reqPart, t) ==
    IF t.err # "" THEN [v |-> subSpec, fns |-> <<>>, err |-> t.err]
    ELSE IF IsComplex(t.segs)
    THEN [v |-> Str(CallText(JoinKey(path))),
          fns |-> (JoinKey(path) :> compileTAssembly(t.segs, reqPart)),
          err |-> ""]
    ELSE [v |-> Str(Substring(subSpec.s, 1, Len(subSpec.s) - 1)), fns |-> <<>>, err |-> ""]

\* a leaf without a placeholder (reqTemplate.js:332-335)
ReplaceLiteral(subSpec) ==
    [v |-> Str(<<"'">> \o subSpec.s \o <<"'">>), fns |-> <<>>, err |-> ""]

\* doReplace of replaceComplexTemplates (reqTemplate.js:306-337): the
\* rewritten subSpec, the functions to register, and the error thrown if any
RECURSIVE doReplace(_, _, _)
RECURSIVE ReplaceKeys(_, _, _, _, _)

\* the entry just rewritten to r is stored; an error ends the walk
AfterKey(obj, keys, path, reqPart, fns, r) ==
    IF r.err # "" THEN [v |-> Obj(Put(obj.f, Head(keys), r.v)), fns |-> fns, err |-> r.err]
    ELSE ReplaceKeys(Obj(Put(obj.f, Head(keys), r.v)), Tail(keys), path, reqPart, r.fns @@ fns)

ReplaceKeys(obj, keys, path, reqPart, fns) ==
    IF keys = <<>> THEN [v |-> obj, fns |-> fns, err |-> ""]
    ELSE AfterKey(obj, keys, path, reqPart, fns,
                  doReplace(obj.f[Head(keys)], Append(path, Head(keys)), reqPart))

doReplace(subSpec, path, reqPart) ==
    IF IsObj(subSpec) THEN ReplaceKeys(subSpec, Keys(subSpec.f), path, reqPart, <<>>)
    ELSE IF TemplateTest(subSpec.s)
    THEN ReplaceTemplated(subSpec, path, reqPart, splitAndPrepareTAsseblyTemplate(subSpec.s))
    ELSE ReplaceLiteral(subSpec)

(***************************************************************************)
(* Evaluation                                                              *)
(***************************************************************************)
\* property access along a path; a missing property, or a TypeError handed
\* to the errorHandler (reqTemplate.js:270-272, 419), gives undefined
RECURSIVE Lookup(_, _)
Lookup(v, path) ==
    IF path = <<>> THEN v
    ELSE IF v.k \in {"object", "uri"} /\ Head(path) \in DOMAIN v.f
    THEN Lookup(v.f[Head(path)], Tail(path))
    ELSE Undef

\* a callback that keeps the last fragment only
CallbackLast(acc, bit) == bit

\* the accumulating callback (reqTemplate.js:263-269, 408-414)
Callback(acc, bit) ==
    IF acc = Undef THEN bit ELSE Str(ToStr(acc) \o ToStr(bit))

\* the options object of compileTAssembly (reqTemplate.js:279-283)
compileOptions ==
    [k \in {"errorHandler", "cb"} \cup DOMAIN globalMethods |-> k]

\* g: options.globals (reqTemplate.js:291)
ContextGlobals(options) ==
    IF "globals" \in DOMAIN options
    THEN [has |-> TRUE, t |-> globalMethods]
    ELSE [has |-> FALSE, t |-> <<>>]

\* the globals option of the top-level TAssembly.compile (reqTemplate.js:416-417)
TopGlobals(globals) == [has |-> TRUE, t |-> globals]

\* a default that falls back only for undefined
DefaultFnUndefinedOnly(val, defVal) == IF val = Undef THEN defVal ELSE val

\* globalMethods.default (reqTemplate.js:10-12)
DefaultFn(val, defVal) == IF Truthy(val) THEN val ELSE defVal

\* globalMethods.merge (reqTemplate.js:13-28)
MergeThrows(destination, source) ==
    LET d == IF Truthy(destination) THEN destination ELSE EmptyObj
        s == IF Truthy(source) THEN source ELSE EmptyObj
    IN d.k \notin {"object", "uri"} \/ s.k \notin {"object", "uri"}

MergeFn(destination, source) ==
    LET d == IF Truthy(destination) THEN destination ELSE EmptyObj
        s == IF Truthy(source) THEN source ELSE EmptyObj
    IN Obj([k \in (DOMAIN d.f) \cup (DOMAIN s.f) |->
            IF k \in DOMAIN d.f /\ d.f[k] # Undef THEN d.f[k]
            ELSE IF k \in DOMAIN s.f THEN s.f[k]
            ELSE d.f[k]])

\* the method resolver (reqTemplate.js:397-400)
MethodThrows(specMethod, context) ==
    ~Truthy(Str(specMethod)) /\ Lookup(context, <<"request">>) = Undef

\* a method resolver that prefers the inbound request's method
MethodFnInboundFirst(specMethod, context) ==
    IF Truthy(Lookup(context, <<"request", "method">>))
    THEN Lookup(context, <<"request", "method">>)
    ELSE IF Truthy(Str(specMethod)) THEN Str(specMethod)
    ELSE Str(<<"get">>)

MethodFn(specMethod, context) ==
    IF Truthy(Str(specMethod)) THEN Str(specMethod)
    ELSE IF Truthy(Lookup(context, <<"request", "method">>))
    THEN Lookup(context, <<"request", "method">>)
    ELSE Str(<<"get">>)

\* swagger-router's URI: expand replaces every {name} of the pattern by the
\* parameter of that name
RECURSIVE Expand(_, _)
Expand(pattern, params) ==
    IF pattern = <<>> THEN <<>>
    ELSE IF Len(pattern) >= 3 /\ pattern[1] = "{" /\ IsWord(pattern[2]) /\ pattern[3] = "}"
    THEN (IF Lookup(params, <<pattern[2]>>).k = "string"
          THEN Lookup(params, <<pattern[2]>>).s ELSE <<>>)
         \o Expand(SubSeq(pattern, 4, Len(pattern)), params)
    ELSE <<pattern[1]>> \o Expand(Tail(pattern), params)

UriValue(s, f) == [k |-> "uri", s |-> s, f |-> f]

\* url.parse keeps the text it is given, with '{' and '}' percent-escaped
UrlParse(s) ==
    [i \in 1..Len(s) |-> IF s[i] = "{" THEN "%7B" ELSE IF s[i] = "}" THEN "%7D" ELSE s[i]]

Ret(v, sub) == [v |-> v, threw |-> FALSE, sub |-> sub]
Throw(sub) == [v |-> Undef, threw |-> TRUE, sub |-> sub]

\* a compileTAssembly call that forgets to reset its accumulator
FinishSubNoReset(sub, key) == Ret(sub[key], sub)

\* a compileTAssembly call that clears every accumulator when it returns
FinishSubResetAll(sub, key) == Ret(sub[key], [j \in DOMAIN sub |-> Undef])

\* the read and reset that end a compileTAssembly call (reqTemplate.js:298-300)
FinishSub(sub, key) == Ret(sub[key], [sub EXCEPT ![key] = Undef])

\* value.constructor of undefined throws (reqTemplate.js:233-236)
CoerceURI(r) ==
    IF r.threw THEN r
    ELSE IF r.v = Undef THEN Throw(r.sub)
    ELSE IF r.v.k = "uri" THEN r
    ELSE Ret(UriValue(ToStr(r.v), <<>>), r.sub)

\* the host resolver's closure (reqTemplate.js:245-250): r is the outcome of
\* hostResolver(context)
HostURI(fn, context, r) ==
    IF r.threw THEN r
    ELSE Ret(UriValue(Expand(<<"/">> \o fn.s, Lookup(context, <<"request", "params">>)),
                      [urlObj |-> Str(UrlParse(ToStr(r.v) \o fn.s))]),
             r.sub)

\* the plain path template's closure (reqTemplate.js:254-256)
PlainURI(fn, context, sub) ==
    IF Lookup(context, <<"request">>) = Undef THEN Throw(sub)
    ELSE Ret(UriValue(Expand(fn.s, Lookup(context, <<"request", "params">>)), <<>>), sub)

Arg(args, i) == IF Len(args) >= i THEN args[i] ELSE Undef

RECURSIVE EvalNode(_, _, _, _, _)
RECURSIVE EvalArgs(_, _, _, _, _)
RECURSIVE RunSegs(_, _, _, _, _)
RECURSIVE CallFn(_, _, _, _)

\* the end of a compileTAssembly call that ran to r
AfterSegs(r, key) == IF r.threw THEN r ELSE FinishSub(r.sub, key)

\* a closure whose relative references start at the request
RunTAssemblyAtRequest(fn, key, context, sub) ==
    IF Lookup(context, <<"request">>) = Undef THEN Throw(sub)
    ELSE AfterSegs(RunSegs(fn.segs, key, Lookup(context, <<"request">>), context, sub), key)

\* the closure compileTAssembly returns (reqTemplate.js:285-301), with its
\* accumulator sub[key]
RunTAssembly(fn, key, context, sub) ==
    IF Lookup(context, <<"request">>) = Undef THEN Throw(sub)
    ELSE AfterSegs(RunSegs(fn.segs, key, Lookup(context, <<"request", fn.part>>), context, sub),
                   key)

\* cb(value) for an expression segment evaluated to r
EmitValue(segs, key, m, rm, r) ==
    IF r.threw THEN r
    ELSE RunSegs(Tail(segs), key, m, rm, [r.sub EXCEPT ![key] = Callback(@, r.v)])

\* the compiled template of a sub-evaluator: every segment is handed to cb
RunSegs(segs, key, m, rm, sub) ==
    IF segs = <<>> THEN Ret(Undef, sub)
    ELSE IF ~Head(segs).raw
    THEN RunSegs(Tail(segs), key, m, rm,
                 [sub EXCEPT ![key] = Callback(@, Str(Head(segs).src))])
    ELSE EmitValue(segs, key, m, rm,
                   EvalNode(Head(segs).e, m, rm, ContextGlobals(compileOptions), sub))

CallFn(fn, key, args, sub) ==
    CASE fn.kind = "default" -> Ret(DefaultFn(Arg(args, 1), Arg(args, 2)), sub)
      [] fn.kind = "merge" ->
            IF MergeThrows(Arg(args, 1), Arg(args, 2)) THEN Throw(sub)
            ELSE Ret(MergeFn(Arg(args, 1), Arg(args, 2)), sub)
      [] fn.kind = "method" ->
            IF MethodThrows(fn.s, Arg(args, 1)) THEN Throw(sub)
            ELSE Ret(MethodFn(fn.s, Arg(args, 1)), sub)
      [] fn.kind = "tassembly" -> RunTAssembly(fn, key, Arg(args, 1), sub)
      [] fn.kind = "uriWhole" -> CoerceURI(RunTAssembly(fn, key, Arg(args, 1), sub))
      [] fn.kind = "uriHost" ->
            HostURI(fn, Arg(args, 1), RunTAssembly(fn, key, Arg(args, 1), sub))
      [] fn.kind = "uriPlain" -> PlainURI(fn, Arg(args, 1), sub)

ConsArg(r, rest) ==
    [vs |-> <<r.v>> \o rest.vs, threw |-> rest.threw, sub |-> rest.sub]

RestArgs(args, m, rm, g, r) ==
    IF r.threw THEN [vs |-> <<>>, threw |-> TRUE, sub |-> r.sub]
    ELSE ConsArg(r, EvalArgs(Tail(args), m, rm, g, r.sub))

EvalArgs(args, m, rm, g, sub) ==
    IF args = <<>> THEN [vs |-> <<>>, threw |-> FALSE, sub |-> sub]
    ELSE RestArgs(args, m, rm, g, EvalNode(Head(args), m, rm, g, sub))

\* the call of rc.g.<p> with the arguments evaluated to as
Apply(e, g, as) ==
    IF as.threw THEN Throw(as.sub)
    ELSE IF Len(e.p) = 1 /\ e.p[1] \in DOMAIN g.t
    THEN CallFn(g.t[e.p[1]], e.p[1], as.vs, as.sub)
    ELSE Ret(Undef, as.sub)

ObjValue(key, r) == IF r.threw THEN r ELSE Ret(Obj(key :> r.v), r.sub)

\* one expression: a reference that cannot be resolved gives undefined, an
\* error thrown by a called function propagates
EvalNode(e, m, rm, g, sub) ==
    CASE e.t = "m" -> Ret(Lookup(m, e.p), sub)
      [] e.t = "rm" -> Ret(Lookup(rm, e.p), sub)
      [] e.t = "str" -> Ret(Str(e.p), sub)
      [] e.t = "obj" ->
            IF e.p = <<>> THEN Ret(EmptyObj, sub)
            ELSE ObjValue(e.p[1], EvalNode(e.a[1], m, rm, g, sub))
      [] e.t = "call" ->
            IF ~g.has THEN Ret(Undef, sub)
            ELSE Apply(e, g, EvalArgs(e.a, m, rm, g, sub))
      [] OTHER -> Ret(Undef, sub)

(***************************************************************************)
(* new Template(spec) (reqTemplate.js:350-428)                             *)
(***************************************************************************)
\* a copy that starts the request with a method field of its own
ShallowCopyWithMethod(spec) ==
    IF IsObj(spec) THEN Obj(("method" :> Str(<<>>)) @@ spec.f) ELSE spec

\* Object.assign({}, spec): a string spreads into one entry per position
ShallowCopy(spec) ==
    IF IsStr(spec) THEN Obj([k \in {ToString(i - 1) : i \in 1..Len(spec.s)} |->
                              Str(<<spec.s[CHOOSE i \in 1..Len(spec.s) : ToString(i - 1) = k]>>)])
    ELSE spec

\* one turn of the loop over Object.keys(spec) (reqTemplate.js:392-405);
\* st = [spec, caller, globals, err]
UriStep(st, r) ==
    IF r.err # "" THEN [st EXCEPT !.err = r.err]
    ELSE [st EXCEPT !.globals = Put(@, "uri", r.fn),
                    !.spec = Obj(Put(@.f, "uri", Str(CallText("uri"))))]

MethodStep(st) ==
    [st EXCEPT !.globals = Put(@, "method", Fn("method", <<>>, "", st.spec.f["method"].s)),
               !.spec = Obj(Put(@.f, "method", Str(CallText("method"))))]

\* a nested object is shared with the caller's spec, so its rewriting shows there
PartStep(st, reqPart, r) ==
    [st EXCEPT !.globals = r.fns @@ @,
               !.spec = Obj(Put(@.f, reqPart, r.v)),
               !.caller = IF IsObj(@) /\ IsObj(@.f[reqPart])
                          THEN Obj(Put(@.f, reqPart, r.v)) ELSE @,
               !.err = r.err]

CtorStep(st, reqPart) ==
    IF reqPart = "uri" THEN UriStep(st, createURIResolver(st.spec.f["uri"].s))
    ELSE IF reqPart = "method" THEN MethodStep(st)
    ELSE PartStep(st, reqPart, doReplace(st.spec.f[reqPart], <<reqPart>>, reqPart))

RECURSIVE CtorKeys(_, _)
CtorKeys(keys, st) ==
    IF keys = <<>> \/ st.err # "" THEN st
    ELSE CtorKeys(Tail(keys), CtorStep(st, Head(keys)))

\* expressionCompiler.parse(spec): every leaf must parse (reqTemplate.js:407)
RECURSIVE ParsesOK(_)
ParsesOK(v) ==
    IF IsObj(v) THEN \A k \in DOMAIN v.f : ParsesOK(v.f[k])
    ELSE ParseExpr(v.s).t # "err"

CompileWhole(st) ==
    IF st.err = "" /\ ~ParsesOK(st.spec) THEN [st EXCEPT !.err = "syntax"] ELSE st

Template(spec) ==
    CompileWhole(CtorKeys(Keys(ShallowCopy(spec).f),
                          [spec |-> ShallowCopy(spec), caller |-> spec,
                           globals |-> globalMethods, err |-> ""]))

\* the accumulators of a compiled Template's sub-evaluators
SubKeys(globals) ==
    {k \in DOMAIN globals : globals[k].kind \in {"tassembly", "uriWhole", "uriHost"}}

\* the composite expression: an object literal with one expression per leaf
RECURSIVE EvalTree(_, _, _, _)
RECURSIVE EvalEntries(_, _, _, _, _, _)

AfterEntry(obj, keys, out, context, g, r) ==
    IF r.threw THEN r
    ELSE EvalEntries(obj, Tail(keys), Put(out, Head(keys), r.v), context, g, r.sub)

EvalEntries(obj, keys, out, context, g, sub) ==
    IF keys = <<>> THEN Ret(Obj(out), sub)
    ELSE AfterEntry(obj, keys, out, context, g, EvalTree(obj.f[Head(keys)], context, g, sub))

EvalTree(v, context, g, sub) ==
    IF IsObj(v) THEN EvalEntries(v, Keys(v.f), <<>>, context, g, sub)
    ELSE EvalNode(ParseExpr(v.s), context, context, g, sub)

\* a Template._eval that forgets to reset its accumulator
FinishTopNoReset(acc, sub) == [v |-> acc, threw |-> FALSE, res |-> acc, sub |-> sub]

\* the read and reset that end Template._eval (reqTemplate.js:424-426)
FinishTop(acc, sub) == [v |-> acc, threw |-> FALSE, res |-> Undef, sub |-> sub]

\* resolver(context) ran to r; cb is called once, with the whole object
AfterTree(acc, r) ==
    IF r.threw THEN [v |-> Undef, threw |-> TRUE, res |-> acc, sub |-> r.sub]
    ELSE FinishTop(Callback(acc, r.v), r.sub)

\* Template.prototype.eval / self._eval (reqTemplate.js:422-427, 436-438)
TemplateEval(t, context, acc, sub) ==
    AfterTree(acc, EvalTree(t.spec, context, TopGlobals(t.globals), sub))

(***************************************************************************)
(* Inputs                                                                  *)
(***************************************************************************)
Placeholder(src) == <<"{">> \o src \o <<"}">>
AbsD == <<"$", ".", "request", ".", "params", ".", "d">>
AbsParams == <<"$", ".", "request", ".", "params">>
AbsBody == <<"$", ".", "request", ".", "body">>
Call2(name, a, b) == <<name, "(">> \o a \o <<",">> \o b \o <<")">>

UriStrings ==
    { <<"/", "{", "d", "}", "/", "t">>,            \* /{d}/t
      Placeholder(<<"x">>),                         \* {x}
      Placeholder(AbsD),                            \* {$.request.params.d}
      Placeholder(<<"h">>) \o <<"/", "p", "/", "{", "d", "}">>,            \* {h}/p/{d}
      <<"http", ":", "/", "/">> \o Placeholder(<<"h">>) \o <<"/", "p">>,    \* http://{h}/p
      Placeholder(Call2("default", AbsD, <<"'", "/", "z", "'">>)) }         \* {default($.request.params.d,'/z')}

MethodStrings == { <<>>, <<"post">> }

LeafStrings ==
    { <<"lit">>,
      Placeholder(<<"x">>),                                    \* {x}
      Placeholder(AbsD),                                       \* {$.request.params.d}
      <<"pre">> \o Placeholder(<<"x">>),                       \* pre{x}
      <<"pre">> \o Placeholder(Call2("merge", AbsD, AbsBody)),    \* pre{merge($.request.params.d,$.request.body)}
      Placeholder(Call2("default", <<"x">>, <<"'", "z", "'">>)),   \* {default(x,'z')}
      Placeholder(Call2("default", AbsD, <<"'", "z", "'">>)),      \* {default($.request.params.d,'z')}
      Placeholder(Call2("merge", AbsD, AbsBody)),              \* {merge($.request.params.d,$.request.body)}
      Placeholder(Call2("merge", AbsParams, AbsBody)),         \* {merge($.request.params,$.request.body)}
      <<"it", "'", "s">>,                                      \* it's
      <<"a", "\\", "b">>,                                      \* a\b
      <<"{", "x">>,                                            \* {x
      <<"x", "}">>,                                            \* x}
      <<"{", "x", "}", "{", "y">> }                            \* {x}{y

\* an optional entry: <<>> for none, <<v>> for the value v
Entry(k, opt) == IF opt = <<>> THEN <<>> ELSE k :> opt[1]

SpecOf(u, me, hx, by) ==
    Obj(Entry("uri", IF u = <<>> THEN <<>> ELSE <<Str(u[1])>>)
        @@ Entry("method", IF me = <<>> THEN <<>> ELSE <<Str(me[1])>>)
        @@ Entry("headers", IF hx = <<>> THEN <<>> ELSE <<Obj("x" :> Str(hx[1]))>>)
        @@ Entry("body", IF by = <<>> THEN <<>> ELSE <<Obj("n" :> Obj("y" :> Str(by[1])))>>))

Opt(S) == {<<>>} \cup {<<x>> : x \in S}

Specs ==
    { SpecOf(u, me, <<<<"lit">>>>, <<>>) : u \in Opt(UriStrings), me \in Opt(MethodStrings) }
    \cup { SpecOf(<<<<"/", "{", "d", "}", "/", "t">>>>, <<<<"post">>>>, hx, by) :
             hx \in Opt(LeafStrings), by \in Opt({Placeholder(<<"x">>)}) }
    \cup { Str(<<"a", "b">>) }

ParamsChoices == { EmptyObj,
                   Obj([d |-> Str(<<"en">>), x |-> Str(<<"/", "u">>), h |-> Str(<<"svc">>)]) }
InboundMethods == Opt({ <<>>, <<"put">> })
PartChoices == Opt({ Obj("x" :> Str(<<"v">>)) })

RequestOf(pa, me, part) ==
    Obj(("params" :> pa)
        @@ Entry("method", IF me = <<>> THEN <<>> ELSE <<Str(me[1])>>)
        @@ Entry("headers", part)
        @@ Entry("body", part))

Contexts ==
    { Obj("request" :> RequestOf(pa, me, part)) :
        pa \in ParamsChoices, me \in InboundMethods, part \in PartChoices }
    \cup { EmptyObj }

TokAlphabet == {"{", "}", "a", "'"}

RECURSIVE SeqsUpTo(_, _)
SeqsUpTo(S, n) ==
    IF n = 0 THEN {<<>>}
    ELSE LET shorter == SeqsUpTo(S, n - 1)
         IN shorter \cup {Append(q, a) : q \in {r \in shorter : Len(r) = n - 1}, a \in S}

TokInputs == SeqsUpTo(TokAlphabet, MaxTokLen)

(***************************************************************************)
(* The state machines                                                      *)
(***************************************************************************)
NoTpl == [spec |-> EmptyObj, globals |-> <<>>, err |-> ""]
NoTok == [done |-> FALSE, err |-> "", segs |-> <<>>]
NoCall == [fn |-> "", a |-> Undef, b |-> Undef]
NoRet == [done |-> FALSE, threw |-> FALSE, v |-> Undef]
auxVars == <<helperCall, helperRet, running>>
Idle == helperCall = NoCall /\ helperRet = NoRet /\ running = <<>>

NoSet == [done |-> FALSE, path |-> <<>>, value |-> Undef, before |-> EmptyObj, threw |-> FALSE]
NoMobile == [pc |-> "idle"]
NoFeed == [pc |-> "idle"]
setVars == <<newReq, lastSet>>
extVars == <<newReq, lastSet, mobile, feed>>
ExtIdle == newReq = EmptyObj /\ lastSet = NoSet /\ mobile = NoMobile /\ feed = NoFeed

Init ==
    /\ origSpec \in Specs
    /\ callerSpec = origSpec
    /\ phase = "new"
    /\ tpl = NoTpl
    /\ res = Undef
    /\ subRes = <<>>
    /\ hist = <<>>
    /\ tokIn = <<>>
    /\ tokOut = NoTok
    /\ Idle
    /\ ExtIdle

Constructed(t) ==
    /\ callerSpec' = t.caller
    /\ phase' = IF t.err = "" THEN "compiled" ELSE "failed"
    /\ tpl' = [spec |-> t.spec, globals |-> t.globals, err |-> t.err]
    /\ subRes' = [k \in SubKeys(t.globals) |-> Undef]

\* new Template(spec)
Construct ==
    /\ phase = "new"
    /\ Constructed(Template(callerSpec))
    /\ UNCHANGED <<origSpec, res, hist, tokIn, tokOut>>
    /\ UNCHANGED auxVars
    /\ UNCHANGED extVars

\* an evaluation that stores the request it built in the template's spec
EvaluatedIntoSpec(context, r) ==
    /\ res' = r.res
    /\ subRes' = r.sub
    /\ hist' = Append(hist, [context |-> context, threw |-> r.threw, v |-> r.v])
    /\ tpl' = [tpl EXCEPT !.spec = IF r.threw THEN @ ELSE r.v]
    /\ UNCHANGED callerSpec

\* what one evaluation assigns: the accumulators only (reqTemplate.js:264-267,
\* 298-299, 409-412, 424-425); merge writes to a copy (line 21), the
\* sub-evaluators to a context record of their own (lines 286-295)
Evaluated(context, r) ==
    /\ res' = r.res
    /\ subRes' = r.sub
    /\ hist' = Append(hist, [context |-> context, threw |-> r.threw, v |-> r.v])
    /\ UNCHANGED <<callerSpec, tpl>>

\* template.eval(context)
Eval(context) ==
    /\ phase = "compiled"
    /\ Len(hist) < MaxEvals
    /\ Evaluated(context, TemplateEval(tpl, context, res, subRes))
    /\ UNCHANGED <<origSpec, phase, tokIn, tokOut>>
    /\ UNCHANGED auxVars
    /\ UNCHANGED extVars

Next == Construct \/ \E context \in Contexts : Eval(context)

Spec == Init /\ [][Next]_vars

\* the tokenizer on its own, over every string of the alphabet
InitTok ==
    /\ tokIn \in TokInputs
    /\ tokOut = NoTok
    /\ phase = "tok"
    /\ origSpec = EmptyObj
    /\ callerSpec = EmptyObj
    /\ tpl = NoTpl
    /\ res = Undef
    /\ subRes = <<>>
    /\ hist = <<>>
    /\ Idle
    /\ ExtIdle

Tokenized(t) == tokOut' = [done |-> TRUE, err |-> t.err, segs |-> t.segs]

Tokenize ==
    /\ phase = "tok"
    /\ ~tokOut.done
    /\ Tokenized(splitAndPrepareTAsseblyTemplate(tokIn))
    /\ UNCHANGED <<origSpec, callerSpec, phase, tpl, res, subRes, hist, tokIn>>
    /\ UNCHANGED auxVars
    /\ UNCHANGED extVars

NextTok == Tokenize

SpecTok == InitTok /\ [][NextTok]_vars

\* one eval of a Template, over a second family of specs and contexts: the
\* spec {uri:'/{domain}/test', method:'post', headers:{x:'{$.request.params.domain}'},
\* body:{a:'{field}'}} and its parts, uri strings of every shape, leaves of
\* every class, and specs whose leaf paths join to one name
Rel(name) == Placeholder(<<name>>)
AbsRef(part, name) == Placeholder(<<"$", ".", "request", ".", part, ".", name>>)
DomainUri == <<"/", "{", "domain", "}", "/", "test">>
ApiPath == <<"api", "/", "{", "path", "}">>

ExampleOf(u, me, hx, ba) ==
    Obj(Entry("uri", u) @@ Entry("method", me)
        @@ Entry("headers", IF hx = <<>> THEN <<>> ELSE <<Obj("x" :> hx[1])>>)
        @@ Entry("body", IF ba = <<>> THEN <<>> ELSE <<Obj("a" :> ba[1])>>))

ExampleSpecs ==
    { ExampleOf(u, me, hx, ba) :
        u \in Opt({Str(DomainUri)}), me \in Opt({Str(<<"post">>)}),
        hx \in Opt({Str(AbsRef("params", "domain"))}), ba \in Opt({Str(Rel("field"))}) }

UriInputs ==
    { Rel("host") \o <<"/">> \o ApiPath,                                \* {host}/api/{path}
      <<"http", ":", "/", "/">> \o Rel("host") \o <<"/">> \o ApiPath,    \* http://{host}/api/{path}
      <<"https", ":", "/", "/">> \o Rel("host") \o <<"/", "api">>,       \* https://{host}/api
      Rel("host"),                                                      \* {host}
      AbsRef("params", "host"),                                         \* {$.request.params.host}
      <<"/", "api", "/">> \o AbsRef("params", "path"),                  \* /api/{$.request.params.path}
      Rel("host") \o <<"/">> \o AbsRef("params", "path"),               \* {host}/{$.request.params.path}
      <<"/">> \o ApiPath,                                               \* /api/{path}
      <<"a">> \o Rel("host") \o <<"/", "api">>,                         \* a{host}/api
      <<"http", ":", "/", "/", "svc", "/">> \o Rel("path") }            \* http://svc/{path}

UriSpecs == { Obj("uri" :> Str(u)) : u \in UriInputs }

ClassLeaves ==
    { Rel("field"),                                          \* {field}
      Placeholder(<<"a", ".", "b", ".", "c">>),               \* {a.b.c}
      AbsRef("params", "domain"),                            \* {$.request.params.domain}
      <<"pre">> \o Rel("field"),                             \* pre{field}
      AbsRef("params", "domain") \o <<"post">>,              \* {$.request.params.domain}post
      <<"lit">> }

ClassSpecs == { Obj("body" :> Obj("a" :> Str(l))) : l \in ClassLeaves }

KeySpecs ==
    { Obj("body" :> Obj(Entry("a_b", l1) @@ ("a" :> Obj("b" :> l2)))) :
        l1 \in Opt({Str(Rel("field")), Str(<<"lit">>)}),
        l2 \in {Str(Rel("other")), Str(AbsRef("params", "domain"))} }
    \cup { Obj(("default" :> Str(Rel("field")))
             @@ ("headers" :> Obj("x" :> Str(Placeholder(
                    Call2("default", <<"$", ".", "request", ".", "params", ".", "domain">>,
                          <<"'", "z", "'">>)))))) }

\* specs with three sub-evaluators: uri, headers_x and body_a
AccSpecs ==
    { ExampleOf(<<Str(u)>>, <<>>, <<Str(<<"pre">> \o Rel("x"))>>, <<Str(Rel("field"))>>) :
        u \in { Rel("host"), Rel("host") \o <<"/">> \o ApiPath } }

\* specs with a relative reference two levels down in body, and one in headers
ScopeLeaves ==
    { Rel("field"),                                          \* {field}
      Placeholder(<<"a", ".", "b", ".", "c">>),               \* {a.b.c}
      <<"pre">> \o Rel("field") }                            \* pre{field}

ScopeSpecs ==
    { Obj(("headers" :> Obj("x" :> Str(Rel("field"))))
          @@ ("body" :> Obj("a" :> Obj("b" :> Str(l))))) : l \in ScopeLeaves }

MoreSpecs ==
    ExampleSpecs \cup UriSpecs \cup ClassSpecs \cup KeySpecs \cup AccSpecs \cup ScopeSpecs

MoreParams ==
    { EmptyObj,
      Obj("domain" :> Str(<<"en.wikipedia.org">>)),
      Obj([domain |-> Str(<<"en.wikipedia.org">>), host |-> Str(<<"svc.example">>),
           path |-> Str(<<"x">>)]) }

MoreBodies ==
    Opt({ Obj("field" :> Str(<<"v">>)),
          Obj([field |-> Str(<<"v">>), other |-> Str(<<"w">>),
               a |-> Obj("b" :> Obj("c" :> Str(<<"deep">>)))]) })

\* requests that hold a field of the same name in every part, at the root and
\* at the nested positions
ScopeBody(own) ==
    Obj(Entry("field", own)
        @@ ("a" :> Obj(("field" :> Str(<<"nested">>))
                       @@ ("b" :> Obj([c |-> Str(<<"deep">>), field |-> Str(<<"deeper">>)])))))

ScopeContexts ==
    { Obj("request" :> Obj(("params" :> Obj("field" :> Str(<<"p">>)))
                           @@ ("field" :> Str(<<"r">>))
                           @@ ("headers" :> Obj("field" :> Str(<<"h">>)))
                           @@ Entry("body", bo))) :
        bo \in Opt({ScopeBody(<<>>), ScopeBody(<<Str(<<"v">>)>>)}) }

MoreContexts ==
    { Obj("request" :> Obj(("params" :> pa) @@ Entry("method", me) @@ Entry("body", bo))) :
        pa \in MoreParams, me \in Opt({Str(<<"get">>)}), bo \in MoreBodies }
    \cup ScopeContexts

InitOnce ==
    /\ origSpec \in MoreSpecs
    /\ callerSpec = origSpec
    /\ phase = "new"
    /\ tpl = NoTpl
    /\ res = Undef
    /\ subRes = <<>>
    /\ hist = <<>>
    /\ tokIn = <<>>
    /\ tokOut = NoTok
    /\ Idle
    /\ ExtIdle

\* the first template.eval(context) of a Template
EvalOnce(context) == hist = <<>> /\ Eval(context)

NextOnce == Construct \/ \E context \in MoreContexts : EvalOnce(context)

SpecOnce == InitOnce /\ [][NextOnce]_vars

\* two invocations of one compileTAssembly closure whose steps interleave: each
\* cb(fragment) is a step, and so is the read and reset of the accumulator
RaceKey == "headers_x"
Invocations == {1, 2}
Other(i) == 3 - i

RaceLeaves ==
    { Rel("x"),                                \* {x}
      <<"pre">> \o Rel("x"),                   \* pre{x}
      Rel("x") \o Rel("y") }                   \* {x}{y}

RaceContexts ==
    { Obj("request" :> Obj("headers" :> Obj(Entry("x", x) @@ Entry("y", y)))) :
        x \in Opt({Str(<<>>), Str(<<"v">>), Str(<<"u">>)}), y \in Opt({Str(<<"w">>)}) }

\* the fragments the compiled template hands to cb, in order
FragmentOf(seg, context) ==
    IF ~seg.raw THEN Str(seg.src)
    ELSE EvalNode(seg.e, Lookup(context, <<"request", "headers">>), context,
                  ContextGlobals(compileOptions), <<>>).v

FragmentsOf(segs, context) == [i \in 1..Len(segs) |-> FragmentOf(segs[i], context)]

\* what an invocation returns when nothing runs between its steps
RECURSIVE Alone(_, _)
Alone(frags, acc) ==
    IF frags = <<>> THEN acc ELSE Alone(Tail(frags), Callback(acc, Head(frags)))

\* all: the fragments of the invocation; frags: those still to emit; pending: the text of this invocation
\* that is in the accumulator; own: what an accumulator local to the call holds
NewCall(frags) ==
    [all |-> frags, frags |-> frags, emitted |-> 0, done |-> FALSE, ret |-> Undef,
     alone |-> Alone(frags, Undef), own |-> Undef, pending |-> <<>>]

Compiled(leaf) == splitAndPrepareTAsseblyTemplate(leaf).segs

InitRace ==
    /\ running \in { [calls |-> <<NewCall(FragmentsOf(Compiled(leaf), c1)),
                                  NewCall(FragmentsOf(Compiled(leaf), c2))>>,
                       overlapped |-> FALSE, mixed |-> FALSE] :
                       leaf \in RaceLeaves, c1 \in RaceContexts, c2 \in RaceContexts }
    /\ subRes = (RaceKey :> Undef)
    /\ phase = "race"
    /\ origSpec = EmptyObj
    /\ callerSpec = EmptyObj
    /\ tpl = NoTpl
    /\ res = Undef
    /\ hist = <<>>
    /\ tokIn = <<>>
    /\ tokOut = NoTok
    /\ helperCall = NoCall
    /\ helperRet = NoRet
    /\ ExtIdle

\* the text bit adds to an accumulator holding acc
Added(acc, bit) == IF acc = Undef /\ bit = Undef THEN <<>> ELSE ToStr(bit)

Emitted(c, acc, bit) ==
    [c EXCEPT !.frags = Tail(@), !.emitted = @ + 1,
              !.own = Callback(@, bit), !.pending = @ \o Added(acc, bit)]

\* cb(bit) of invocation i (reqTemplate.js:263-269)
Emit(i) ==
    /\ phase = "race"
    /\ running.calls[i].frags # <<>>
    /\ subRes' = [subRes EXCEPT ![RaceKey] = Callback(@, Head(running.calls[i].frags))]
    /\ running' =
          [calls |-> [running.calls EXCEPT
                        ![i] = Emitted(@, subRes[RaceKey], Head(running.calls[i].frags))],
           overlapped |-> \/ running.overlapped
                          \/ /\ running.calls[Other(i)].emitted > 0
                             /\ ~running.calls[Other(i)].done,
           mixed |-> \/ running.mixed
                     \/ /\ running.calls[Other(i)].pending # <<>>
                        /\ ToStr(Head(running.calls[i].frags)) # <<>>]
    /\ UNCHANGED <<origSpec, callerSpec, phase, tpl, res, hist, tokIn, tokOut>>
    /\ UNCHANGED <<helperCall, helperRet>>
    /\ UNCHANGED extVars

Finished(i, r) ==
    /\ subRes' = r.sub
    /\ running' = [running EXCEPT
                     !.calls = [j \in Invocations |->
                                  IF j = i THEN [@[j] EXCEPT !.done = TRUE, !.ret = r.v,
                                                             !.pending = <<>>]
                                  ELSE [@[j] EXCEPT !.pending = <<>>]]]

\* var value = res; res = undefined; return value (reqTemplate.js:298-300)
Finish(i) ==
    /\ phase = "race"
    /\ running.calls[i].frags = <<>>
    /\ ~running.calls[i].done
    /\ Finished(i, FinishSub(subRes, RaceKey))
    /\ UNCHANGED <<origSpec, callerSpec, phase, tpl, res, hist, tokIn, tokOut>>
    /\ UNCHANGED <<helperCall, helperRet>>
    /\ UNCHANGED extVars

NextRace == \E i \in Invocations : Emit(i) \/ Finish(i)

SpecRace == InitRace /\ [][NextRace]_vars

\* globalMethods on their own, over pairs of JavaScript values
HelperValues ==
    { Undef, Null, Num("0"), Num("1"), Num("5"), Str(<<>>), Str(<<"x">>), Str(<<"y">>),
      Bool("false"), Bool("true"),
      EmptyObj, Obj("a" :> Num("1")), Obj("a" :> Undef),
      Obj(("a" :> Num("2")) @@ ("b" :> Num("2"))) }

NotTemplate ==
    /\ origSpec = EmptyObj
    /\ callerSpec = EmptyObj
    /\ tpl = NoTpl
    /\ res = Undef
    /\ subRes = <<>>
    /\ hist = <<>>
    /\ tokIn = <<>>
    /\ tokOut = NoTok

InitHelpers ==
    /\ helperCall \in [fn : DOMAIN globalMethods, a : HelperValues, b : HelperValues]
    /\ helperRet = NoRet
    /\ running = <<>>
    /\ phase = "helper"
    /\ NotTemplate
    /\ ExtIdle

Called(r) == helperRet' = [done |-> TRUE, threw |-> r.threw, v |-> r.v]

CallHelper(name) ==
    /\ phase = "helper"
    /\ ~helperRet.done
    /\ helperCall.fn = name
    /\ Called(CallFn(globalMethods[name], name, <<helperCall.a, helperCall.b>>, <<>>))
    /\ UNCHANGED <<origSpec, callerSpec, phase, tpl, res, subRes, hist, tokIn, tokOut>>
    /\ UNCHANGED <<helperCall, running>>
    /\ UNCHANGED extVars

CallDefault == CallHelper("default")
CallMerge == CallHelper("merge")

NextHelpers == CallDefault \/ CallMerge

SpecHelpers == InitHelpers /\ [][NextHelpers]_vars

(***************************************************************************)
(* Vocabulary of the properties                                            *)
(***************************************************************************)
\* the leaf positions of the specs of Specs
Positions == { <<"headers", "x">>, <<"body", "n", "y">> }

Evals == 1..Len(hist)
Returned(i) == ~hist[i].threw

\* is there a key at path pos of v (whatever its value)?
HasKey(v, pos) ==
    /\ Lookup(v, SubSeq(pos, 1, Len(pos) - 1)).k = "object"
    /\ pos[Len(pos)] \in DOMAIN Lookup(v, SubSeq(pos, 1, Len(pos) - 1)).f

\* the string leaf of the spec at pos, if there is one
IsLeaf(spec, pos) == Lookup(spec, pos).k = "string"
LeafOf(spec, pos) == Lookup(spec, pos).s

\* the context path a single-reference leaf reads: {x} reads x of the request
\* part of the leaf, {$.request.params.d} reads from the context root
ReadsPath(leaf, pos) ==
    IF leaf = Placeholder(<<"x">>) THEN <<"request", pos[1], "x">>
    ELSE IF leaf = Placeholder(AbsD) THEN <<"request", "params", "d">>
    ELSE <<>>

HasRequest(context) == Lookup(context, <<"request">>).k = "object"

RECURSIVE LeafStringsOf(_)
LeafStringsOf(v) ==
    IF IsObj(v) THEN UNION {LeafStringsOf(v.f[k]) : k \in DOMAIN v.f}
    ELSE {v.s}

Mentions(s, a) == \E i \in 1..Len(s) : s[i] = a

\* braces that pair up: the depth never drops below 0 and ends at 0
RECURSIVE DepthOK(_, _)
DepthOK(s, depth) ==
    IF s = <<>> THEN depth = 0
    ELSE IF s[1] = "{" THEN DepthOK(Tail(s), depth + 1)
    ELSE IF s[1] = "}" THEN depth > 0 /\ DepthOK(Tail(s), depth - 1)
    ELSE DepthOK(Tail(s), depth)

Balanced(s) == DepthOK(s, 0)

Count(s, a) == Cardinality({i \in 1..Len(s) : s[i] = a})

\* the outcome of an eval of a Template compiled afresh
FreshSub == [k \in DOMAIN subRes |-> Undef]
FreshOutcome(context) == TemplateEval(tpl, context, Undef, FreshSub)

(***************************************************************************)
(* Properties                                                              *)
(***************************************************************************)

\* C1: omission on miss. When a leaf is a single reference to a path that is
\* absent from the context, the resolved request has no key at the leaf's
\* position.
C1_OmissionOnMiss ==
    \A i \in Evals : \A pos \in Positions :
        ( /\ Returned(i)
          /\ IsObj(origSpec) /\ IsLeaf(origSpec, pos)
          /\ ReadsPath(LeafOf(origSpec, pos), pos) # <<>>
          /\ Lookup(hist[i].context, ReadsPath(LeafOf(origSpec, pos), pos)) = Undef )
        => ~HasKey(hist[i].v, pos)

\* C2: unresolved references never abort an evaluation. For a context with an
\* inbound request and a spec without a merge call, eval returns a resolved
\* request and does not throw.
C2_NeverAborts ==
    \A i \in Evals :
        ( /\ HasRequest(hist[i].context)
          /\ \A leaf \in LeafStringsOf(origSpec) : ~Mentions(leaf, "merge") )
        => Returned(i)

\* C3: accumulator reset. Between eval calls the accumulator of the top-level
\* evaluator and of every sub-evaluator is undefined, also after calls that
\* threw, and every outcome equals the outcome of a freshly compiled Template
\* for the same context.
C3_AccumulatorReset ==
    phase = "compiled" =>
        /\ res = Undef
        /\ \A k \in DOMAIN subRes : subRes[k] = Undef
        /\ \A i \in Evals :
              /\ hist[i].threw = FreshOutcome(hist[i].context).threw
              /\ hist[i].v = FreshOutcome(hist[i].context).v

\* an eval that threw, in a Template with sub-evaluators, was followed by an
\* eval that returned
C3_Witness ==
    /\ phase = "compiled"
    /\ DOMAIN subRes # {}
    /\ \E i \in Evals : \E j \in Evals :
          i < j /\ hist[i].threw /\ Returned(j) /\ IsObj(hist[j].v)

\* C4: determinism. Two successive eval calls of one compiled Template with
\* the same context return equal resolved requests.
C4_Determinism ==
    \A i \in Evals : \A j \in Evals :
        (j = i + 1 /\ hist[i].context = hist[j].context /\ Returned(i) /\ Returned(j))
        => hist[i].v = hist[j].v

\* two successive evals with one context, whose result holds the value a
\* sub-evaluator computed
C4_Witness ==
    \E i \in Evals : \E j \in Evals :
        /\ j = i + 1 /\ hist[i].context = hist[j].context
        /\ Returned(i) /\ Returned(j)
        /\ "headers_x" \in DOMAIN subRes
        /\ Lookup(hist[j].v, <<"headers", "x">>).k = "string"

\* C5: literal fidelity. A spec whose leaf has no placeholder compiles, and
\* the leaf appears atom for atom at its path in every resolved request.
C5_LiteralFidelity ==
    \A pos \in Positions :
        ( /\ IsObj(origSpec) /\ IsLeaf(origSpec, pos)
          /\ ~TemplateTest(LeafOf(origSpec, pos))
          /\ \A other \in Positions \ {pos} :
                IsLeaf(origSpec, other) => Balanced(LeafOf(origSpec, other)) )
        => /\ phase # "failed"
           /\ \A i \in Evals : Returned(i) => Lookup(hist[i].v, pos) = Str(LeafOf(origSpec, pos))

\* C6: helper availability. default(value, fallback) gives value when it is
\* truthy and fallback otherwise, in a leaf compiled to a function
\* ({default(x,'z')}) as in an inlined leaf ({default($.request.params.d,'z')}).
C6_HelperAvailability ==
    \A i \in Evals :
        ( /\ Returned(i) /\ IsObj(origSpec) /\ IsLeaf(origSpec, <<"headers", "x">>) )
        => /\ LeafOf(origSpec, <<"headers", "x">>) = Placeholder(Call2("default", <<"x">>, <<"'", "z", "'">>))
              => Lookup(hist[i].v, <<"headers", "x">>)
                 = DefaultFn(Lookup(hist[i].context, <<"request", "headers", "x">>), Str(<<"z">>))
           /\ LeafOf(origSpec, <<"headers", "x">>) = Placeholder(Call2("default", AbsD, <<"'", "z", "'">>))
              => Lookup(hist[i].v, <<"headers", "x">>)
                 = DefaultFn(Lookup(hist[i].context, <<"request", "params", "d">>), Str(<<"z">>))

\* C7: compile-time syntax errors. new Template(spec) throws when a leaf has
\* unbalanced braces or the spec root is not a mapping.
C7_CompileTimeErrors ==
    ( /\ phase \in {"compiled", "failed"}
      /\ \/ ~IsObj(origSpec)
         \/ \E leaf \in LeafStringsOf(origSpec) : ~Balanced(leaf) )
    => phase = "failed"

\* C8: tokenizer brace check. The tokenizer throws 'unbalanced curly braces'
\* when the numbers of '{' and '}' differ, and does not throw it when the
\* braces pair up.
C8_TokenizerBraceCheck ==
    tokOut.done =>
        /\ (Count(tokIn, "{") # Count(tokIn, "}") /\ tokOut.err # "syntax")
              => tokOut.err = "unbalanced"
        /\ Balanced(tokIn) => tokOut.err # "unbalanced"

\* the method a resolved request must carry: the spec's when it is non-empty,
\* else the inbound request's when it is set, else get
ExpectedMethod(specMethod, context) ==
    IF specMethod # <<>> THEN Str(specMethod)
    ELSE IF Lookup(context, <<"request", "method">>).k = "string"
            /\ Lookup(context, <<"request", "method">>).s # <<>>
    THEN Lookup(context, <<"request", "method">>)
    ELSE Str(<<"get">>)

\* C9: method precedence. For a spec with a method key, the method of every
\* resolved request is the spec's method when it is non-empty, otherwise the
\* inbound request's method when it is set, otherwise get.
C9_MethodPrecedence ==
    \A i \in Evals :
        (Returned(i) /\ IsObj(origSpec) /\ IsLeaf(origSpec, <<"method">>))
        => Lookup(hist[i].v, <<"method">>)
           = ExpectedMethod(LeafOf(origSpec, <<"method">>), hist[i].context)

\* a spec method post was returned although the inbound method is put
C9_Witness ==
    \E i \in Evals :
        /\ Returned(i)
        /\ IsObj(origSpec) /\ IsLeaf(origSpec, <<"method">>)
        /\ LeafOf(origSpec, <<"method">>) = <<"post">>
        /\ Lookup(hist[i].context, <<"request", "method">>) = Str(<<"put">>)
        /\ Lookup(hist[i].v, <<"method">>) = Str(<<"post">>)

\* C10: method is always present. Every resolved request has a method field;
\* without a method key in the spec it is the inbound request's method, or get.
C10_MethodAlwaysPresent ==
    \A i \in Evals :
        (Returned(i) /\ IsObj(origSpec))
        => /\ HasKey(hist[i].v, <<"method">>)
           /\ ~IsLeaf(origSpec, <<"method">>)
              => Lookup(hist[i].v, <<"method">>) = ExpectedMethod(<<>>, hist[i].context)

\* the keys of v, level by level, are keys of spec; below a leaf of the spec
\* the value is whatever the leaf's expression gave
RECURSIVE KeysWithin(_, _)
KeysWithin(v, spec) ==
    IsObj(spec) =>
        /\ IsObj(v)
        /\ DOMAIN v.f \subseteq DOMAIN spec.f
        /\ \A k \in DOMAIN v.f : KeysWithin(v.f[k], spec.f[k])

\* C11: shape preservation of keys. At every nesting level of the spec, each
\* key of the resolved request is a key at the same path of the original spec;
\* no key of the inbound request is copied unless the spec names it.
C11_ShapePreservation ==
    \A i \in Evals :
        (Returned(i) /\ IsObj(origSpec)) => KeysWithin(hist[i].v, origSpec)

\* the inbound body has a field x the spec's body does not name, and the
\* resolved body is without it
C11_Witness ==
    \E i \in Evals :
        /\ Returned(i)
        /\ IsObj(origSpec) /\ "body" \in DOMAIN origSpec.f
        /\ HasKey(hist[i].context, <<"request", "body", "x">>)
        /\ HasKey(hist[i].context, <<"request", "params", "d">>)
        /\ DOMAIN hist[i].v.f = DOMAIN origSpec.f
        /\ DOMAIN Lookup(hist[i].v, <<"body">>).f = {"n"}

\* the values JavaScript takes for false in a condition
Falsy == { Undef, Null, Num("0"), Str(<<>>), Bool("false") }
Nullish(v) == v \in {Undef, Null}
ObjectLike(v) == v.k \in {"object", "uri"}
EntriesOf(v) == IF Nullish(v) THEN <<>> ELSE v.f

MergeCalled == helperRet.done /\ helperCall.fn = "merge"
DefaultCalled == helperRet.done /\ helperCall.fn = "default"

\* C12: merge result. For object or undefined/null arguments merge returns a
\* mapping with every entry of destination, plus the entries of source whose
\* key is not a key of destination; a key of destination keeps destination's
\* value, also when that value is undefined.
C12_MergeResult ==
    ( /\ MergeCalled
      /\ Nullish(helperCall.a) \/ ObjectLike(helperCall.a)
      /\ Nullish(helperCall.b) \/ ObjectLike(helperCall.b) )
    => /\ ~helperRet.threw
       /\ IsObj(helperRet.v)
       /\ DOMAIN helperRet.v.f = DOMAIN EntriesOf(helperCall.a) \cup DOMAIN EntriesOf(helperCall.b)
       /\ \A k \in DOMAIN helperRet.v.f :
             helperRet.v.f[k] = IF k \in DOMAIN EntriesOf(helperCall.a)
                                THEN EntriesOf(helperCall.a)[k]
                                ELSE EntriesOf(helperCall.b)[k]

\* C13: merge operand check. merge throws whenever an argument is neither
\* null/undefined nor object-like, the values 0, '' and false included.
C13_MergeOperandCheck ==
    ( /\ MergeCalled
      /\ \/ ~(Nullish(helperCall.a) \/ ObjectLike(helperCall.a))
         \/ ~(Nullish(helperCall.b) \/ ObjectLike(helperCall.b)) )
    => helperRet.threw

\* C14: default helper. default(value, fallback) returns value when value is
\* truthy and fallback otherwise.
C14_DefaultHelper ==
    DefaultCalled =>
        /\ ~helperRet.threw
        /\ helperRet.v = IF helperCall.a \in Falsy THEN helperCall.b ELSE helperCall.a

\* default(0, 5) returned 5
C14_Witness ==
    /\ DefaultCalled
    /\ helperCall.a = Num("0") /\ helperCall.b = Num("5")
    /\ helperRet.v = Num("5")

\* the text a path template receives for a parameter
TextOf(v) == IF v.k = "string" THEN v.s ELSE <<>>

\* the request the spec of ExampleSpecs describes for a context: what the
\* reference of each field reads there
ExpectedField(key, context) ==
    CASE key = "uri" ->
            UriValue(<<"/">> \o TextOf(Lookup(context, <<"request", "params", "domain">>))
                     \o <<"/", "test">>, <<>>)
      [] key = "method" -> Str(<<"post">>)
      [] key = "headers" -> Obj("x" :> Lookup(context, <<"request", "params", "domain">>))
      [] key = "body" -> Obj("a" :> Lookup(context, <<"request", "body", "field">>))

TheExample ==
    ExampleOf(<<Str(DomainUri)>>, <<Str(<<"post">>)>>,
              <<Str(AbsRef("params", "domain"))>>, <<Str(Rel("field"))>>)

TheExampleContext ==
    Obj("request" :> Obj([params |-> Obj("domain" :> Str(<<"en.wikipedia.org">>)),
                          method |-> Str(<<"get">>),
                          body |-> Obj("field" :> Str(<<"v">>))]))

\* C15: end-to-end evaluation. The spec {uri:'/{domain}/test', method:'post',
\* headers:{x:'{$.request.params.domain}'}, body:{a:'{field}'}}, and every spec
\* made of some of its fields, evaluated against a request that has
\* params.domain and body.field yields the method post, the uri expanded from
\* request.params, headers.x read from the full context and body.a read from
\* the request body.
C15_EndToEnd ==
    \A i \in Evals :
        ( /\ origSpec \in ExampleSpecs
          /\ Lookup(hist[i].context, <<"request", "params", "domain">>).k = "string"
          /\ Lookup(hist[i].context, <<"request", "body", "field">>).k = "string" )
        => /\ Returned(i)
           /\ hist[i].v = Obj([key \in DOMAIN origSpec.f |-> ExpectedField(key, hist[i].context)])

\* the example of the claim gave exactly the request of the claim
C15_Witness ==
    /\ origSpec = TheExample
    /\ Len(hist) = 1
    /\ hist[1].context = TheExampleContext
    /\ Returned(1)
    /\ hist[1].v = Obj([method |-> Str(<<"post">>),
                        uri |-> UriValue(<<"/", "en.wikipedia.org", "/", "test">>, <<>>),
                        headers |-> Obj("x" :> Str(<<"en.wikipedia.org">>)),
                        body |-> Obj("a" :> Str(<<"v">>))])

\* the uri strings '{host}/<path>' of UriInputs, with or without a scheme
HostForms ==
    { Rel("host") \o <<"/">> \o ApiPath,
      <<"http", ":", "/", "/">> \o Rel("host") \o <<"/">> \o ApiPath,
      <<"https", ":", "/", "/">> \o Rel("host") \o <<"/", "api">> }

\* every text held by a value: its own and that of its parts
TextsOf(v) == {v.s} \cup {v.f[k].s : k \in DOMAIN v.f}

\* C16: host-templated URI. For a uri '{host}/<path with {param}>' the
\* resolved URI is the resolved host followed by the path with every {param}
\* expanded from request.params, in every part of the structured value; no
\* unexpanded placeholder remains in any part.
C16_HostTemplatedURI ==
    \A i \in Evals :
        ( /\ IsObj(origSpec) /\ IsLeaf(origSpec, <<"uri">>)
          /\ LeafOf(origSpec, <<"uri">>) \in HostForms
          /\ Lookup(hist[i].context, <<"request", "params", "host">>).k = "string"
          /\ Lookup(hist[i].context, <<"request", "params", "path">>).k = "string" )
        => /\ Returned(i)
           /\ Lookup(hist[i].v, <<"uri">>).k = "uri"
           /\ Lookup(hist[i].v, <<"uri", "urlObj">>).s
                = Expand(LeafOf(origSpec, <<"uri">>),
                         Lookup(hist[i].context, <<"request", "params">>))
           /\ \A t \in TextsOf(Lookup(hist[i].v, <<"uri">>)) :
                 ~Mentions(t, "{") /\ ~Mentions(t, "%7B")

\* a leaf that is one placeholder, and whether its expression starts at the
\* context root ($.) or names fields of the current request part
OnePlaceholder(leaf) ==
    /\ Len(leaf) >= 3 /\ leaf[1] = "{" /\ leaf[Len(leaf)] = "}"
    /\ \A x \in 2..(Len(leaf) - 1) : leaf[x] \notin {"{", "}"}
ReadsRoot(leaf) == leaf[2] = "$"

\* how the constructor left the leaf body.a
ClassLeaf == LeafOf(origSpec, <<"body", "a">>)
Inlined ==
    /\ Lookup(tpl.spec, <<"body", "a">>) = Str(SubSeq(ClassLeaf, 2, Len(ClassLeaf) - 1))
    /\ "body_a" \notin DOMAIN tpl.globals
Registered ==
    /\ Lookup(tpl.spec, <<"body", "a">>) = Str(CallText("body_a"))
    /\ "body_a" \in DOMAIN tpl.globals
    /\ tpl.globals["body_a"].kind = "tassembly"

\* C17 as stated: a one-placeholder leaf that references only fields of the
\* current request part is inlined with its braces stripped and no function
\* is registered; a one-placeholder leaf is compiled to a registered function
\* only when it references the context root.
C17_AsStated ==
    (phase = "compiled" /\ origSpec \in ClassSpecs /\ OnePlaceholder(ClassLeaf))
    => IF ReadsRoot(ClassLeaf) THEN Registered ELSE Inlined

\* C17, amended: a one-placeholder leaf is inlined exactly when its
\* expression does not reference the current request part (it starts at the
\* context root); a one-placeholder leaf that names fields of the current
\* request part, and every leaf with text around a placeholder, is compiled
\* to a function registered under the leaf's path.
C17_Classification ==
    (phase = "compiled" /\ origSpec \in ClassSpecs)
    => /\ (OnePlaceholder(ClassLeaf) /\ ReadsRoot(ClassLeaf)) => Inlined
       /\ (OnePlaceholder(ClassLeaf) /\ ~ReadsRoot(ClassLeaf)) => Registered
       /\ (TemplateTest(ClassLeaf) /\ ~OnePlaceholder(ClassLeaf)) => Registered
       /\ ~TemplateTest(ClassLeaf) => "body_a" \notin DOMAIN tpl.globals

\* the leaf {a.b.c} was compiled to the function body_a, which read
\* request.body.a.b.c
C17_Witness ==
    /\ phase = "compiled" /\ origSpec \in ClassSpecs
    /\ ClassLeaf = Placeholder(<<"a", ".", "b", ".", "c">>)
    /\ Registered
    /\ \E i \in Evals : Returned(i) /\ Lookup(hist[i].v, <<"body", "a">>) = Str(<<"deep">>)

\* the paths of the leaves of v
RECURSIVE LeafPaths(_, _)
LeafPaths(v, prefix) ==
    IF IsObj(v) THEN UNION {LeafPaths(v.f[k], Append(prefix, k)) : k \in DOMAIN v.f}
    ELSE {prefix}

\* the leaves the constructor replaced by a call of a registered function
IsCall(text) == Len(text) = 7 /\ SubSeq(text, 1, 3) = <<"$", "$", ".">>
ComplexPaths == {p \in LeafPaths(tpl.spec, <<>>) : IsCall(Lookup(tpl.spec, p).s)}

\* what the evaluator compiled from the leaf {name} at path p returns
OwnValue(p, context) ==
    Lookup(context, <<"request", p[1], LeafOf(origSpec, p)[2]>>)

\* C18: unique function-table keys. Two distinct complex leaf paths are
\* registered under distinct keys, no key is that of a built-in entry, and
\* every function reference invokes the evaluator compiled from its own leaf.
C18_UniqueKeys ==
    (phase = "compiled" /\ origSpec \in KeySpecs)
    => /\ \A p \in ComplexPaths : \A q \in ComplexPaths : p # q => JoinKey(p) # JoinKey(q)
       /\ \A p \in ComplexPaths : JoinKey(p) \notin {"uri", "method", "default", "merge"}
       /\ \A i \in Evals : \A p \in ComplexPaths :
             Returned(i) => Lookup(hist[i].v, p) = OwnValue(p, hist[i].context)

\* the shapes of a uri string: it has a placeholder that starts with $. or
\* $$.; it starts, after an optional http(s)://, with a placeholder that is
\* followed by '/'
StartsAt(s, i, pat) ==
    i + Len(pat) - 1 <= Len(s) /\ SubSeq(s, i, i + Len(pat) - 1) = pat

HasRootPlaceholder(uri) ==
    \E i \in 1..Len(uri) : \E j \in (i + 1)..Len(uri) :
        /\ uri[i] = "{" /\ uri[j] = "}"
        /\ \/ StartsAt(uri, i + 1, <<"$", ".">>) /\ j > i + 3
           \/ StartsAt(uri, i + 1, <<"$", "$", ".">>) /\ j > i + 4

AfterScheme(uri) ==
    IF Len(uri) >= 4 /\ SubSeq(uri, 2, 4) = <<":", "/", "/">> /\ uri[1] \in {"http", "https"}
    THEN SubSeq(uri, 5, Len(uri)) ELSE uri

StartsWithPlaceholderSlash(rest) ==
    /\ Len(rest) >= 4 /\ rest[1] = "{"
    /\ \E j \in 3..(Len(rest) - 1) :
          /\ rest[j] = "}" /\ rest[j + 1] = "/"
          /\ \A x \in 1..j : rest[x] # "/"

ExpectedStrategy(uri) ==
    IF OnePlaceholder(uri) \/ HasRootPlaceholder(uri) THEN "uriWhole"
    ELSE IF StartsWithPlaceholderSlash(AfterScheme(uri)) THEN "uriHost"
    ELSE "uriPlain"

UriOfSpec == LeafOf(origSpec, <<"uri">>)
UriResolver == tpl.globals["uri"]
ParamsOf(context) == Lookup(context, <<"request", "params">>)

\* C19: URI strategy selection. createURIResolver selects the whole-URI
\* expression iff the uri is one placeholder or has a placeholder referencing
\* $. or $$.; otherwise the templated host iff the uri starts with an optional
\* http(s):// and a placeholder followed by '/'; otherwise the plain path
\* template, expanded against request.params. Whole-URI and host expressions
\* resolve relative names against request.params.
C19_UriStrategy ==
    (phase = "compiled" /\ origSpec \in UriSpecs)
    => /\ UriResolver.kind = ExpectedStrategy(UriOfSpec)
       /\ UriResolver.kind \in {"uriWhole", "uriHost"} => UriResolver.part = "params"
       /\ \A i \in Evals :
             Returned(i) =>
                /\ UriResolver.kind = "uriPlain"
                      => Lookup(hist[i].v, <<"uri">>).s = Expand(UriOfSpec, ParamsOf(hist[i].context))
                /\ (UriOfSpec = Rel("host") /\ Lookup(ParamsOf(hist[i].context), <<"host">>) # Undef)
                      => Lookup(hist[i].v, <<"uri">>).s = Lookup(ParamsOf(hist[i].context), <<"host">>).s
                /\ (UriResolver.kind = "uriHost" /\ Lookup(ParamsOf(hist[i].context), <<"host">>) # Undef)
                      => Mentions(Lookup(hist[i].v, <<"uri", "urlObj">>).s, "svc.example")

\* '{host}/{$.request.params.path}' starts like a templated host and was
\* resolved as a whole-URI expression
C19_Witness ==
    /\ phase = "compiled" /\ origSpec \in UriSpecs
    /\ UriOfSpec = Rel("host") \o <<"/">> \o AbsRef("params", "path")
    /\ UriResolver.kind = "uriWhole"
    /\ \E i \in Evals :
          Returned(i) /\ Lookup(hist[i].v, <<"uri">>).s = <<"svc.example", "/", "x">>

BothDone == phase = "race" /\ \A i \in Invocations : running.calls[i].done
SomeDiffers == \E i \in Invocations : running.calls[i].ret # running.calls[i].alone

\* C20 as stated: if an invocation emits a fragment after the other has
\* emitted one and before the other has read and cleared the accumulator,
\* then at least one of the two returns a value that differs from the value
\* it returns when run alone.
C20_AsStated ==
    (BothDone /\ running.overlapped) => SomeDiffers

\* C20, amended: if an invocation appends a fragment with a text that is not
\* empty to the accumulator while it holds text, not empty either, of the
\* other invocation that the other has not yet read, then at least one of the
\* two returns a value that differs from the value it returns when run alone;
\* an accumulator local to each call holds that value under every interleaving.
C20_InterleavingHazard ==
    BothDone =>
        /\ running.mixed => SomeDiffers
        /\ \A i \in Invocations : running.calls[i].own = running.calls[i].alone

\* pre{x} twice: the first invocation returned the fragments of both
C20_Witness ==
    /\ BothDone /\ running.mixed
    /\ running.calls[1].alone = Str(<<"pre", "v">>)
    /\ running.calls[2].alone = Str(<<"pre", "u">>)
    /\ running.calls[1].ret = Str(<<"pre", "pre", "v", "u">>)
    /\ running.calls[2].ret = Undef

\* accumulators in which every sub-evaluator but k has something left over
Leftover == Str(<<"left", "over">>)
OthersHold(k) == [j \in DOMAIN subRes |-> IF j = k THEN Undef ELSE Leftover]

\* the call r of sub-evaluator k, started with the accumulators before, left
\* the other accumulators alone, cleared its own and returned what alone does
KeepsToItself(k, before, r, alone) ==
    /\ r.threw = alone.threw
    /\ ~r.threw => /\ r.sub = before
                   /\ r.sub[k] = Undef
                   /\ r.v = alone.v

\* C21: separate accumulators. The top-level evaluator and every
\* sub-evaluator own distinct accumulators; a call of a sub-evaluator, whatever
\* the other accumulators hold, neither reads nor writes them, and on normal
\* return leaves its own accumulator undefined; between calls the top-level
\* accumulator is undefined too.
C21_SeparateAccumulators ==
    (phase = "compiled" /\ origSpec \in AccSpecs)
    => /\ DOMAIN subRes = {"uri", "headers_x", "body_a"}
       /\ res = Undef
       /\ \A i \in Evals : \A k \in DOMAIN subRes :
             KeepsToItself(k, OthersHold(k),
                           CallFn(tpl.globals[k], k, <<hist[i].context>>, OthersHold(k)),
                           CallFn(tpl.globals[k], k, <<hist[i].context>>, FreshSub))

\* an evaluation ran the three sub-evaluators one after the other
C21_Witness ==
    /\ phase = "compiled" /\ origSpec \in AccSpecs
    /\ \E i \in Evals :
          /\ Returned(i)
          /\ Lookup(hist[i].v, <<"uri">>).k = "uri"
          /\ Lookup(hist[i].v, <<"headers", "x">>) = Str(<<"pre", "undefined">>)
          /\ Lookup(hist[i].v, <<"body", "a">>) = Str(<<"v">>)
    /\ \A k \in DOMAIN subRes : subRes[k] = Undef

\* the template and the caller's spec are as the constructor t left them
AsConstructed(t) ==
    /\ tpl = [spec |-> t.spec, globals |-> t.globals, err |-> t.err]
    /\ callerSpec = t.caller

C23_CallerSpecUnchanged ==
    phase # "new"
    => /\ callerSpec = origSpec
       /\ Template(callerSpec).spec = Template(origSpec).spec
       /\ Template(callerSpec).err = Template(origSpec).err

\* the text a segment list stands for
RECURSIVE Rebuild(_)
Rebuild(segs) ==
    IF segs = <<>> THEN <<>>
    ELSE (IF segs[1].raw THEN <<"{">> \o segs[1].src \o <<"}">> ELSE segs[1].src)
         \o Rebuild(Tail(segs))

\* the number of "{" of s that open a placeholder, the depth before s given
RECURSIVE Placeholders(_, _)
Placeholders(s, depth) ==
    IF s = <<>> THEN 0
    ELSE IF s[1] = "{" THEN (IF depth = 0 THEN 1 ELSE 0) + Placeholders(Tail(s), depth + 1)
    ELSE IF s[1] = "}" THEN Placeholders(Tail(s), depth - 1)
    ELSE Placeholders(Tail(s), depth)

RawCount(segs) == Cardinality({i \in 1..Len(segs) : segs[i].raw})

\* C24: tokenizer segmentation. For a balanced input that the tokenizer
\* accepts, the segments in order spell the input again (literals as they
\* are, expressions between braces), there is one expression segment per
\* top-level placeholder, nested braces staying inside it, and no literal
\* segment is empty.
C24_Segmentation ==
    (tokOut.done /\ Balanced(tokIn) /\ tokOut.err = "")
    => /\ Rebuild(tokOut.segs) = tokIn
       /\ RawCount(tokOut.segs) = Placeholders(tokIn, 0)
       /\ \A i \in 1..Len(tokOut.segs) :
             /\ ~tokOut.segs[i].raw => tokOut.segs[i].src # <<>>
             /\ tokOut.segs[i].raw => Balanced(tokOut.segs[i].src)

\* a literal followed by a placeholder that holds a nested pair of braces
C24_Witness ==
    /\ tokOut.done /\ tokOut.err = ""
    /\ tokIn = <<"a", "{", "{", "}", "}">>
    /\ Len(tokOut.segs) = 2
    /\ tokOut.segs[2].raw /\ tokOut.segs[2].src = <<"{", "}">>

\* the fragments as one string, in emission order
RECURSIVE Concatenated(_)
Concatenated(frags) ==
    IF frags = <<>> THEN <<>> ELSE ToStr(Head(frags)) \o Concatenated(Tail(frags))

\* what an evaluator that emitted frags is to return
Accumulated(frags) ==
    IF frags = <<>> THEN Undef
    ELSE IF Len(frags) = 1 THEN frags[1]
    ELSE Str(Concatenated(frags))

\* C25: fragment accumulation. An invocation that ran without another one
\* between its steps returns its only fragment as it is, the string
\* concatenation of its fragments in emission order when there are two or
\* more, and undefined when there is none.
C25_FragmentAccumulation ==
    phase = "race"
    => \A i \in Invocations :
          (running.calls[i].done /\ ~running.overlapped)
          => running.calls[i].ret = Accumulated(running.calls[i].all)

\* the value of the relative leaf in a request part whose view is m
ScopedValue(leaf, m) ==
    IF leaf = Rel("field") THEN Lookup(m, <<"field">>)
    ELSE IF leaf = <<"pre">> \o Rel("field") THEN Str(<<"pre">> \o ToStr(Lookup(m, <<"field">>)))
    ELSE Lookup(m, <<"a", "b", "c">>)

\* C26: relative scope. A relative reference two levels down in body reads
\* request.body, and one in headers reads request.headers: not the nested
\* position of the leaf, not the request, not another part.
C26_RelativeScope ==
    (phase = "compiled" /\ origSpec \in ScopeSpecs)
    => \A i \in Evals : Returned(i) =>
          /\ Lookup(hist[i].v, <<"body", "a", "b">>)
                = ScopedValue(LeafOf(origSpec, <<"body", "a", "b">>),
                              Lookup(hist[i].context, <<"request", "body">>))
          /\ Lookup(hist[i].v, <<"headers", "x">>)
                = Lookup(hist[i].context, <<"request", "headers", "field">>)

\* {field} at body.a.b read request.body.field while request.field,
\* request.headers.field and request.body.a.field held other values
C26_Witness ==
    /\ phase = "compiled" /\ origSpec \in ScopeSpecs
    /\ LeafOf(origSpec, <<"body", "a", "b">>) = Rel("field")
    /\ \E i \in Evals :
          /\ Returned(i)
          /\ hist[i].context \in ScopeContexts
          /\ Lookup(hist[i].v, <<"body", "a", "b">>) = Str(<<"v">>)
          /\ Lookup(hist[i].v, <<"headers", "x">>) = Str(<<"h">>)

(***************************************************************************)
(* _setAtPath: the setter generator                                        *)
(***************************************************************************)
Arr(f) == [k |-> "array", s |-> <<>>, f |-> f]
IsArr(v) == v.k = "array"
IsContainer(v) == v.k \in {"object", "array"}

\* path.split('.')
RECURSIVE SplitPath(_, _)
SplitPath(path, cur) ==
    IF path = <<>> THEN <<cur>>
    ELSE IF Head(path) = "." THEN <<cur>> \o SplitPath(Tail(path), "")
    ELSE SplitPath(Tail(path), cur \o Head(path))

\* o[key] of JavaScript, for an o that is neither undefined nor null
GetAt(o, key) == IF IsContainer(o) /\ key \in DOMAIN o.f THEN o.f[key] ELSE Undef

\* a step that always initializes with an object
RefStepObject(subspec, p) ==
    [key |-> p, index |-> IsArr(subspec), initializer |-> EmptyObj]

\* one round of the loop of reqTemplate.js:48-54
RefStep(subspec, p) ==
    [key |-> p, index |-> IsArr(subspec),
     initializer |-> IF IsArr(GetAt(subspec, p)) THEN Arr(<<>>) ELSE EmptyObj]

\* refArr; subspec[p] of an undefined or null subspec is a TypeError
RECURSIVE RefArr(_, _)
RefArr(pathArr, subspec) ==
    IF pathArr = <<>> THEN [threw |-> FALSE, refs |-> <<>>]
    ELSE IF subspec.k \in {"undefined", "null"} THEN [threw |-> TRUE, refs |-> <<>>]
    ELSE LET rest == RefArr(Tail(pathArr), GetAt(subspec, Head(pathArr)))
         IN [threw |-> rest.threw,
             refs |-> <<RefStep(subspec, Head(pathArr))>> \o rest.refs]

\* obj[k1][k2]... read
RECURSIVE ReadAt(_, _)
ReadAt(o, keys) ==
    IF keys = <<>> THEN [threw |-> FALSE, v |-> o]
    ELSE IF o.k \in {"undefined", "null"} THEN [threw |-> TRUE, v |-> Undef]
    ELSE ReadAt(GetAt(o, Head(keys)), Tail(keys))

\* obj[k1][k2]... = v; a property set on a primitive is dropped (the
\* generated function is not strict)
RECURSIVE WriteAt(_, _, _)
WriteAt(o, keys, v) ==
    IF o.k \in {"undefined", "null"} THEN [threw |-> TRUE, o |-> o]
    ELSE IF Len(keys) = 1
    THEN [threw |-> FALSE,
          o |-> IF IsContainer(o) THEN [o EXCEPT !.f = Put(@, keys[1], v)] ELSE o]
    ELSE LET r == WriteAt(GetAt(o, Head(keys)), Tail(keys), v)
         IN [threw |-> r.threw,
             o |-> IF ~r.threw /\ IsContainer(GetAt(o, Head(keys)))
                   THEN [o EXCEPT !.f = Put(@, Head(keys), r.o)] ELSE o]

RefKeys(refs, n) == [j \in 1..n |-> refs[j].key]

\* obj<ref> = obj<ref> || initializer, for the first i references (lines 57-62)
InitStep(refs, i, o, r) ==
    IF r.threw THEN [threw |-> TRUE, o |-> o]
    ELSE WriteAt(o, RefKeys(refs, i), IF Truthy(r.v) THEN r.v ELSE refs[i].initializer)

RECURSIVE InitFrom(_, _, _)
InitFrom(refs, i, st) ==
    IF st.threw \/ i >= Len(refs) THEN st
    ELSE InitFrom(refs, i + 1, InitStep(refs, i, st.o, ReadAt(st.o, RefKeys(refs, i))))

\* the last statement: obj<all refs> = value (lines 63-65)
AssignLeaf(refs, st, value) ==
    IF st.threw THEN st ELSE WriteAt(st.o, RefKeys(refs, Len(refs)), value)

\* a setter without the test of the value
SetterUnguarded(refs, o, value) ==
    AssignLeaf(refs, InitFrom(refs, 1, [threw |-> FALSE, o |-> o]), value)

\* the generated function (obj, value) (lines 56-69)
Setter(refs, o, value) ==
    IF value # Undef
    THEN AssignLeaf(refs, InitFrom(refs, 1, [threw |-> FALSE, o |-> o]), value)
    ELSE [threw |-> FALSE, o |-> o]

\* _setAtPath(path, spec)(obj, value)
SetAtPath(path, spec, o, value) ==
    IF RefArr(SplitPath(path, ""), spec).threw THEN [threw |-> TRUE, o |-> o]
    ELSE Setter(RefArr(SplitPath(path, ""), spec).refs, o, value)

\* a spec with a chain of objects and a sequence, and the paths of its leaves
SetSpec ==
    Obj([method |-> Str(<<"post">>),
         body |-> Obj([nested |-> Obj("one" :> Obj("two" :> Obj("tree" :> Str(Rel("x"))))),
                       list |-> Arr(("0" :> Str(Rel("x"))) @@ ("1" :> Str(<<"lit">>)))])])

TreePath == <<"body", ".", "nested", ".", "one", ".", "two", ".", "tree">>
SetPaths ==
    { <<"method">>, TreePath,
      <<"body", ".", "list", ".", "0">>, <<"body", ".", "list", ".", "1">> }

SetValues == { Undef, Null, Str(<<"v">>), Num("0") }

\* newReq = {method: context.request.method}
InitSet ==
    /\ newReq \in { Obj("method" :> m) : m \in {Undef, Str(<<"get">>)} }
    /\ lastSet = NoSet
    /\ phase = "set"
    /\ NotTemplate
    /\ Idle
    /\ mobile = NoMobile
    /\ feed = NoFeed

SetDone(path, value, r) ==
    /\ newReq' = r.o
    /\ lastSet' = [done |-> TRUE, path |-> path, value |-> value, before |-> newReq,
                   threw |-> r.threw]

\* a resolver calls its setter: setValue(newReq, value)
SetValue(path, value) ==
    /\ phase = "set"
    /\ SetDone(path, value, SetAtPath(path, SetSpec, newReq, value))
    /\ UNCHANGED <<origSpec, callerSpec, phase, tpl, res, subRes, hist, tokIn, tokOut>>
    /\ UNCHANGED auxVars
    /\ UNCHANGED <<mobile, feed>>

NextSet == \E path \in SetPaths, value \in SetValues : SetValue(path, value)

SpecSet == InitSet /\ [][NextSet]_vars

\* the proper prefixes of a path, as key sequences
Prefixes(pathArr) == { SubSeq(pathArr, 1, n) : n \in 1..(Len(pathArr) - 1) }
PathOf(call) == SplitPath(call.path, "")

\* C27: path setter no-op. A setter called with undefined leaves the object
\* as it was: no container created, no key added. A setter called with any
\* other value, null included, assigns it at the path.
C27_SetterNoOp ==
    lastSet.done
    => /\ ~lastSet.threw
       /\ lastSet.value = Undef => newReq = lastSet.before
       /\ lastSet.value # Undef => ReadAt(newReq, PathOf(lastSet)).v = lastSet.value

\* undefined was passed for a path none of whose containers existed, and null
\* was assigned by another call
C27_Witness ==
    /\ lastSet.done /\ lastSet.value = Undef /\ lastSet.path = TreePath
    /\ GetAt(newReq, "body") # Undef
    /\ GetAt(GetAt(newReq, "body"), "nested") = Undef
    /\ ReadAt(newReq, <<"body", "list", "1">>).v = Null

\* C28: path setter containers. For a defined value every container along the
\* path exists afterwards with the kind the spec has at that position, the
\* containers that existed are kept with all the entries they had beside the
\* path, and the leaf holds the value; the chain body.nested.one.two is made
\* of objects.
C28_SetterContainers ==
    (lastSet.done /\ lastSet.value # Undef)
    => /\ ~lastSet.threw
       /\ ReadAt(newReq, PathOf(lastSet)).v = lastSet.value
       /\ \A pre \in Prefixes(PathOf(lastSet)) :
             /\ ReadAt(newReq, pre).v.k = ReadAt(SetSpec, pre).v.k
             /\ IsContainer(ReadAt(lastSet.before, pre).v)
                => \A key \in DOMAIN ReadAt(lastSet.before, pre).v.f :
                      key # PathOf(lastSet)[Len(pre) + 1]
                      => GetAt(ReadAt(newReq, pre).v, key) = GetAt(ReadAt(lastSet.before, pre).v, key)
       /\ \A key \in DOMAIN lastSet.before.f :
             key # PathOf(lastSet)[1] => GetAt(newReq, key) = GetAt(lastSet.before, key)
       /\ lastSet.path = TreePath
          => \A pre \in Prefixes(PathOf(lastSet)) : IsObj(ReadAt(newReq, pre).v)

\* the tree leaf was set in an object that already held both list elements,
\* and the sequence is still a sequence with both
C28_Witness ==
    /\ lastSet.done /\ lastSet.path = TreePath /\ lastSet.value = Str(<<"v">>)
    /\ ReadAt(lastSet.before, <<"body", "nested">>).v = Undef
    /\ IsArr(ReadAt(newReq, <<"body", "list">>).v)
    /\ ReadAt(newReq, <<"body", "list", "0">>).v = Null
    /\ ReadAt(newReq, <<"body", "list", "1">>).v = Num("0")
    /\ ReadAt(newReq, <<"body", "nested", "one", "two", "tree">>).v = Str(<<"v">>)

(***************************************************************************)
(* sys/mobileapps.js: _fetchFromMCSAndStore and _purgeURIs                 *)
(***************************************************************************)
\* a revision: none (rp.revision undefined) or a number
NoRev == [has |-> FALSE, n |-> 0]
Rev(n) == [has |-> TRUE, n |-> n]
Revisions == {1, 2, 3}

\* a > b of JavaScript on revisions: false when an operand is undefined (NaN)
Greater(a, b) == a.has /\ b.has /\ a.n > b.n

Pending == [done |-> FALSE, status |-> 0, revision |-> NoRev]
Reply(status, revision) == [done |-> TRUE, status |-> status, revision |-> revision]

\* the four puts of lines 162-190 and the purge events of lines 80-113
StoreBuckets == {"mobileapps.lead", "mobileapps.remaining",
                 "mobile-sections-lead", "mobile-sections-remaining"}
RevisionedURIs == {"mobile-sections/rev", "mobile-sections-lead/rev",
                   "mobile-sections-remaining/rev"}
LatestURIs == {"mobile-sections", "mobile-sections-lead", "mobile-sections-remaining"}

\* purgeEvents of _purgeURIs (mobileapps.js:79-113)
PurgeEvents(purgeLatest) ==
    IF purgeLatest THEN RevisionedURIs \cup LatestURIs ELSE RevisionedURIs

\* the condition of lines 160 and 194
IsNewer(revision, latestRev) == Greater(revision, latestRev)

\* the request, the status and revision key_value holds for the title, and the
\* status and revision the content service answers with
InitMobile ==
    /\ mobile \in { [pc |-> "start", revision |-> r, stored |-> st, service |-> sv,
                     newContent |-> Pending, latestRev |-> Pending,
                     writes |-> {}, purged |-> {}, purgeRevision |-> NoRev,
                     returned |-> NoRev] :
                     r \in {NoRev} \cup {Rev(n) : n \in Revisions},
                     st \in {Reply(404, NoRev), Reply(500, NoRev)}
                            \cup {Reply(200, Rev(n)) : n \in Revisions},
                     sv \in {Reply(500, NoRev)} \cup {Reply(200, Rev(n)) : n \in Revisions} }
    /\ (mobile.revision.has /\ mobile.service.status = 200)
          => mobile.service.revision = mobile.revision
    /\ phase = "mobile"
    /\ NotTemplate
    /\ Idle
    /\ newReq = EmptyObj /\ lastSet = NoSet
    /\ feed = NoFeed

MobileFrame ==
    /\ UNCHANGED <<origSpec, callerSpec, phase, tpl, res, subRes, hist, tokIn, tokOut>>
    /\ UNCHANGED auxVars
    /\ UNCHANGED <<newReq, lastSet, feed>>

\* the requests of lines 134-154 are issued; without a revision latestRev is
\* P.resolve(-1)
IssueRequests ==
    /\ mobile.pc = "start"
    /\ mobile' = [mobile EXCEPT !.pc = "fetching",
                                !.latestRev = IF mobile.revision.has THEN @
                                              ELSE Reply(200, Rev(-1))]
    /\ MobileFrame

\* the content service answers (lines 135-137)
ContentArrives ==
    /\ mobile.pc = "fetching"
    /\ ~mobile.newContent.done
    /\ mobile' = [mobile EXCEPT !.newContent = mobile.service]
    /\ MobileFrame

\* key_value answers the read of mobileapps.lead (lines 144-151): the stored
\* revision, -1 on 404, the error otherwise
LatestRevArrives ==
    /\ mobile.pc = "fetching"
    /\ ~mobile.latestRev.done
    /\ mobile' = [mobile EXCEPT !.latestRev =
                     IF mobile.stored.status = 404 THEN Reply(200, Rev(-1))
                     ELSE mobile.stored]
    /\ MobileFrame

\* P.props(requests).then (lines 157-160): rejected when a request failed
Decide ==
    /\ mobile.pc = "fetching"
    /\ mobile.newContent.done /\ mobile.latestRev.done
    /\ mobile' = [mobile EXCEPT !.pc =
                     IF mobile.newContent.status # 200 \/ mobile.latestRev.status # 200
                     THEN "failed"
                     ELSE IF IsNewer(mobile.revision, mobile.latestRev.revision)
                     THEN "storing" ELSE "purging"]
    /\ MobileFrame

\* the four puts of P.join (lines 161-190); failed: the puts that fail
Store(failed) ==
    /\ mobile.pc = "storing"
    /\ mobile' = [mobile EXCEPT !.writes = StoreBuckets \ failed,
                                !.pc = IF failed = {} THEN "purging" ELSE "failed"]
    /\ MobileFrame

\* _purgeURIs and thenReturn (lines 192-195, 115-123): a 404 of the events
\* module is swallowed
Purge(status) ==
    /\ mobile.pc = "purging"
    /\ mobile' = [mobile EXCEPT
                    !.purged = PurgeEvents(IsNewer(mobile.revision, mobile.latestRev.revision)),
                    !.purgeRevision = mobile.newContent.revision,
                    !.returned = IF status = 500 THEN @ ELSE mobile.newContent.revision,
                    !.pc = IF status = 500 THEN "failed" ELSE "returned"]
    /\ MobileFrame

NextMobile ==
    \/ IssueRequests
    \/ ContentArrives
    \/ LatestRevArrives
    \/ Decide
    \/ \E failed \in SUBSET StoreBuckets : Store(failed)
    \/ \E status \in {200, 404, 500} : Purge(status)

SpecMobile == InitMobile /\ [][NextMobile]_vars

\* the fetched content is the latest revision of the title
FetchedIsLatest ==
    \/ ~mobile.revision.has
    \/ mobile.stored.status = 404
    \/ Greater(mobile.revision, mobile.stored.revision)

\* C29: mobile sections store-on-miss. When the call has returned, the fetched
\* content was written to the four buckets and the revision-less URIs were
\* purged exactly when the request named no revision, no revision was stored,
\* or the requested revision was newer than the stored one; otherwise nothing
\* was written and only the revisioned URIs were purged; the content returned
\* is the fetched one.
C29_StoreOnMiss ==
    (phase = "mobile" /\ mobile.pc = "returned")
    => /\ FetchedIsLatest => (mobile.writes = StoreBuckets /\ LatestURIs \subseteq mobile.purged)
       /\ ~FetchedIsLatest => (mobile.writes = {} /\ mobile.purged = RevisionedURIs)
       /\ RevisionedURIs \subseteq mobile.purged
       /\ mobile.returned = mobile.service.revision

(***************************************************************************)
(* The feed module: verifyParams and Feed.aggregated                       *)
(***************************************************************************)
Digits == <<"0", "1", "2", "3", "4", "5", "6", "7", "8", "9">>
IsDigit(a) == \E i \in 1..Len(Digits) : Digits[i] = a
DigitVal(a) == (CHOOSE i \in 1..Len(Digits) : Digits[i] = a) - 1

\* the number a string of digits stands for
RECURSIVE ToNumber(_, _)
ToNumber(s, acc) ==
    IF s = <<>> THEN acc ELSE ToNumber(Tail(s), acc * 10 + DigitVal(Head(s)))

\* /^\d\d$/.test(s)
TwoDigits(s) == Len(s) = 2 /\ IsDigit(s[1]) /\ IsDigit(s[2])

\* /^2\d\d\d$/.test(rp.yyyy)   (part_000:86)
YearOK(yyyy) ==
    Len(yyyy) = 4 /\ yyyy[1] = "2" /\ \A i \in 2..4 : IsDigit(yyyy[i])

\* the tests of lines 96 and 106; two-digit strings compare as their numbers
MonthOK(mm) == TwoDigits(mm) /\ mm # <<"0", "0">> /\ ~(ToNumber(mm, 0) > 12)
DayOK(dd) == TwoDigits(dd) /\ dd # <<"0", "0">> /\ ~(ToNumber(dd, 0) > 31)

\* verifyParams returns without throwing (part_000:83-115)
verifyParams(rp) == YearOK(rp.yyyy) /\ MonthOK(rp.mm) /\ DayOK(rp.dd)

IsLeap(y) == (y % 4 = 0 /\ y % 100 # 0) \/ y % 400 = 0
DaysIn(y, m) ==
    IF m = 2 THEN (IF IsLeap(y) THEN 29 ELSE 28)
    ELSE IF m \in {4, 6, 9, 11} THEN 30 ELSE 31

\* new Date(Date.UTC(y, m - 1, d)): a day past the end of the month runs
\* over into the next month (part_000:46)
DateUTC(y, m, d) ==
    IF d <= DaysIn(y, m) THEN <<y, m, d>>
    ELSE IF m = 12 THEN <<y + 1, 1, d - DaysIn(y, m)>>
    ELSE <<y, m + 1, d - DaysIn(y, m)>>

getDateSafe(rp) == DateUTC(ToNumber(rp.yyyy, 0), ToNumber(rp.mm, 0), ToNumber(rp.dd, 0))

\* date < today   (part_000:33-37)
Before(date, today) ==
    \/ date[1] < today[1]
    \/ date[1] = today[1] /\ date[2] < today[2]
    \/ date[1] = today[1] /\ date[2] = today[2] /\ date[3] < today[3]

isHistoric(date, today) == Before(date, today)

\* FEED_URIS (part_000:15-20) and the parts of the two branches (225, 239)
AllParts == {"tfa", "mostread", "image", "news"}
HistoricParts == {"tfa", "mostread", "image"}
CurrentBucket == "feed.aggregated"
HistoricBucket == "feed.aggregated.historic"

Years == { <<"2", "0", "1", "6">>, <<"1", "0", "1", "6">>, <<"2", "0", "1">> }
Months == { <<"0", "2">>, <<"0", "3">>, <<"0", "0">>, <<"1", "3">>, <<"3">> }
Days == { <<"0", "1">>, <<"0", "2">>, <<"3", "0">>, <<"0", "0">>, <<"3", "2">> }
Statuses == {200, 404, 500}

\* the request parameters, the day it is, and what key_value answers for each
\* of the two buckets
InitFeed ==
    /\ feed \in { [pc |-> "start",
                   rp |-> [yyyy |-> y, mm |-> m, dd |-> d],
                   today |-> <<2016, 3, 1>>,
                   stored |-> (CurrentBucket :> c) @@ (HistoricBucket :> h),
                   date |-> <<>>, status |-> 0,
                   reads |-> {}, readStatus |-> 0, fetched |-> {}, writes |-> {}] :
                   y \in Years, m \in Months, d \in Days, c \in Statuses, h \in Statuses }
    /\ phase = "feed"
    /\ NotTemplate
    /\ Idle
    /\ newReq = EmptyObj /\ lastSet = NoSet
    /\ mobile = NoMobile

FeedFrame ==
    /\ UNCHANGED <<origSpec, callerSpec, phase, tpl, res, subRes, hist, tokIn, tokOut>>
    /\ UNCHANGED auxVars
    /\ UNCHANGED <<newReq, lastSet, mobile>>

\* getContent(bucket) of the branch the date selects (lines 205-215, 249)
ReadBucket(date) ==
    [feed EXCEPT !.pc = "reading", !.date = date,
                 !.reads = {IF isHistoric(date, feed.today) THEN HistoricBucket
                            ELSE CurrentBucket}]

\* aggregated(hyper, req) up to the read it issues (lines 152-156, 249)
Aggregated ==
    /\ feed.pc = "start"
    /\ feed' = IF verifyParams(feed.rp) THEN ReadBucket(getDateSafe(feed.rp))
               ELSE [feed EXCEPT !.pc = "rejected", !.status = 400]
    /\ FeedFrame

\* the parts requested on a miss (lines 225, 239)
PartsOnMiss == IF isHistoric(feed.date, feed.today) THEN HistoricParts ELSE AllParts

\* the read returns: a hit is passed on, .catch({ status: 404 }) requests the
\* parts, any other error rejects (lines 221-246)
ReadReturns ==
    /\ feed.pc = "reading"
    /\ \E bucket \in feed.reads :
          feed' = [feed EXCEPT
                     !.readStatus = feed.stored[bucket],
                     !.pc = CASE feed.stored[bucket] = 200 -> "populating"
                              [] feed.stored[bucket] = 404 -> "fetching"
                              [] OTHER -> "failed",
                     !.status = IF feed.stored[bucket] \in {200, 404} THEN @
                                ELSE feed.stored[bucket],
                     !.fetched = IF feed.stored[bucket] = 404 THEN PartsOnMiss ELSE @]
    /\ FeedFrame

\* the buckets stored after the parts were assembled (lines 227-233, 241-244)
BucketsOnMiss ==
    IF isHistoric(feed.date, feed.today) THEN {HistoricBucket}
    ELSE {CurrentBucket, HistoricBucket}

\* P.props(props) of _makeFeedRequests settles; on success the result is
\* assembled and the stores are issued
PartsReturn(ok) ==
    /\ feed.pc = "fetching"
    /\ feed' = IF ok THEN [feed EXCEPT !.pc = "populating", !.writes = BucketsOnMiss]
               ELSE [feed EXCEPT !.pc = "failed", !.status = 500]
    /\ FeedFrame

\* contentRequest.then(populateSummaries) (lines 157-204, 250)
PopulateSummaries(ok) ==
    /\ feed.pc = "populating"
    /\ feed' = [feed EXCEPT !.pc = IF ok THEN "returned" ELSE "failed",
                            !.status = IF ok THEN 200 ELSE 500]
    /\ FeedFrame

NextFeed ==
    \/ Aggregated
    \/ ReadReturns
    \/ \E ok \in BOOLEAN : PartsReturn(ok)
    \/ \E ok \in BOOLEAN : PopulateSummaries(ok)

SpecFeed == InitFeed /\ [][NextFeed]_vars

\* yyyy/mm/dd name a day of the calendar in a year 2000-2999
ValidDate(rp) ==
    /\ YearOK(rp.yyyy) /\ TwoDigits(rp.mm) /\ TwoDigits(rp.dd)
    /\ ToNumber(rp.mm, 0) \in 1..12
    /\ ToNumber(rp.dd, 0) \in 1..DaysIn(ToNumber(rp.yyyy, 0), ToNumber(rp.mm, 0))

RequestedDay(rp) == <<ToNumber(rp.yyyy, 0), ToNumber(rp.mm, 0), ToNumber(rp.dd, 0)>>

NoRequestIssued == feed.reads = {} /\ feed.fetched = {} /\ feed.writes = {}

\* the reads, fetches and writes of a request for a valid date
FeedProtocol ==
    /\ feed.writes # {} => feed.readStatus = 404
    /\ feed.readStatus \notin {0, 200, 404} => (feed.fetched = {} /\ feed.writes = {})
    /\ Before(RequestedDay(feed.rp), feed.today)
       => /\ feed.reads \subseteq {HistoricBucket}
          /\ feed.fetched \in {{}, HistoricParts}
          /\ feed.writes \in {{}, {HistoricBucket}}
          /\ (feed.pc = "returned" /\ feed.readStatus = 404) => feed.writes = {HistoricBucket}
    /\ ~Before(RequestedDay(feed.rp), feed.today)
       => /\ feed.reads \subseteq {CurrentBucket}
          /\ feed.fetched \in {{}, AllParts}
          /\ feed.writes \in {{}, {CurrentBucket, HistoricBucket}}
          /\ (feed.pc = "returned" /\ feed.readStatus = 404)
                => feed.writes = {CurrentBucket, HistoricBucket}

\* C30: feed cache-miss protocol. A bucket is written only after the read of
\* the request returned 404; a date before today reads only the historic
\* bucket, on a miss fetches tfa, mostread and image and writes the historic
\* bucket; a date of today or later reads feed.aggregated, on a miss fetches
\* the four parts and writes both buckets; a read error other than 404 causes
\* no fetch and no write; parameters that are not a valid yyyy/mm/dd are
\* rejected with 400 before any request.
C30_FeedProtocol ==
    (phase = "feed" /\ feed.pc # "start")
    => /\ ValidDate(feed.rp) => FeedProtocol
       /\ ~ValidDate(feed.rp) => (feed.pc = "rejected" /\ feed.status = 400 /\ NoRequestIssued)

====
